---------------------------- MODULE Spec2Model ----------------------------
(***************************************************************************)
(* Model of the bounded lock-free single-producer/single-consumer channel *)
(* of src/src/spsc_channel.rs: SyncQueue<T, N> (head, tail, the two index *)
(* caches and the backing buffer), its push and pop, and the Sender and   *)
(* Receiver handles with try_send / send / try_receive / receive.         *)
(*                                                                         *)
(* Every atomic load or store of a counter and every slot access is a     *)
(* step of its own, in program order; the producer and the consumer       *)
(* interleave freely between steps.  The Release store of a counter comes *)
(* after the slot access that precedes it in the code, and the Acquire    *)
(* load before the slot access that follows it, which is the order the    *)
(* Release/Acquire pair guarantees.                                        *)
(*                                                                         *)
(* Payloads are opaque to the queue (T is moved, never inspected), so the *)
(* producer offers 1, 2, 3, ... as the threaded tests do (tx.send(i)): a  *)
(* rejected value is offered again, an accepted one is followed by the    *)
(* next.  0 stands for the uninitialised bits of a never-written slot.    *)
(* A zero-sized T has one value and no bits: every slot holds that value. *)
(*                                                                         *)
(* The channel starts unbuilt: spsc_channel constructs it (or panics), and *)
(* each handle can be dropped between its calls; the last drop runs       *)
(* SyncQueue's Drop.  Allocations, deallocations, destructor calls and    *)
(* teardowns are recorded in `mem`.                                        *)
(***************************************************************************)
EXTENDS Integers, Sequences, FiniteSets

\* Largest capacity N explored (tests use 1, 4, 16 and 256).
MaxN == 4

\* Number of values the producer gets accepted in a run (ITERS of the tests).
MaxSends == 9

\* Length of the operation log kept by the single-threaded harness.
MaxLog == 8

\* SparseMap: keys 0..MaxKey and the key at the edge of a new map's
\* indirection table are used, with items 1..MaxItem.
MaxKey == 2
MaxItem == 2

\* Store: a run keeps at most MaxSlots items at once; when it keeps more than
\* one, each index is recycled at most MaxCycles times.
MaxSlots == 3
MaxCycles == 2

\* ArrayQueue: capacities 1..MaxQueueN, at most MaxPushes pushes in a run.
MaxQueueN == 3
MaxPushes == 5

\* FixedVec: capacities 0..MaxVecN, holding the values 1..MaxVecN.
MaxVecN == 3

\* ErasedVec: at most MaxVecPushes elements are pushed in a run; push_many,
\* pop_many and swap_remove are called while at most MaxVecMixed were.
MaxVecPushes == 10
MaxVecMixed == 4

\* Layout of SyncQueue: the structure is placed at the start of one of the
\* cache lines 0..MaxLines of memory.
MaxLines == 4

VARIABLES
    zst,         \* size_of::<T>() == 0
    chan,        \* "unbuilt", "live", "panicked" (construction failed), "destroyed"
    sender,      \* the Sender handle: "none", "alive", "dropped"
    receiver,    \* the Receiver handle: "none", "alive", "dropped"
    strong,      \* strong count of the Arc<SyncQueue<T, N>>
    mem,         \* history: allocations, deallocations, destructor calls, teardowns
    N,           \* const generic N of SyncQueue<T, N>
    harness,     \* "threaded": two threads; "single": one thread calls both handles
    head,        \* SyncQueue.head  (AtomicUsize)
    tail,        \* SyncQueue.tail  (AtomicUsize)
    head_cache,  \* SyncQueue.head_cache (Cell, producer only)
    tail_cache,  \* SyncQueue.tail_cache (Cell, consumer only)
    buffer,      \* SyncQueue.buffer: slot -> bits stored there
    ppc,         \* producer's position in push
    p_op,        \* "try_send" or "send"
    p_value,     \* push's parameter `value`
    p_tail,      \* push's local `tail`
    p_result,    \* what the producer's last call returned
    cpc,         \* consumer's position in pop
    c_op,        \* "try_receive" or "receive"
    c_head,      \* pop's local `head`
    c_value,     \* pop's local `value`
    c_result,    \* what the consumer's last call returned
    sent,        \* history: values accepted, in order of acceptance
    received,    \* history: values returned by pop, in order
    log,         \* history: completed calls, single-threaded harness only
    p_len_tail,  \* len() through the Sender: the value its load of tail returned
    p_seen,      \* history: tail - head at the instants of that call's loads
    c_len_tail,  \* len() through the Receiver: the value its load of tail returned
    c_seen,      \* history: tail - head at the instants of that call's loads
    p_prev,      \* history, during a try_send: what is_full() answered, if it was the Sender's call before
    c_prev,      \* history, during a try_receive: what is_empty() answered, if it was the Receiver's call before
    sm_items,    \* SparseMap.items
    sm_keys,     \* SparseMap.keys
    sm_indices,  \* SparseMap.indices
    sm_ret,      \* what the last call on the SparseMap returned, and for which key
    sm_map,      \* history: the key -> item map that the calls so far describe
    st_items,        \* Store.items
    st_generations,  \* Store.generations
    st_free_indices, \* Store.free_indices
    st_ret,          \* what the last call on the Store returned, and its arguments
    st_live,         \* history: the keys push returned and remove was not yet called with, each with its item
    st_keys,         \* history: every key push has returned
    st_cap,          \* the number of items the run keeps at once
    aq_N,        \* const generic N of ArrayQueue<T, N>
    aq_data,     \* ArrayQueue.data: slot -> bits stored there
    aq_head,     \* ArrayQueue.head
    aq_tail,     \* ArrayQueue.tail
    aq_ret,      \* what the last call on the ArrayQueue returned, and its argument
    aq_content,  \* history: the elements pushed and not yet popped or cleared, oldest first
    aq_start,    \* the value both counters had when the run began
    fv_N,        \* const generic N of FixedVec<T, N>
    fv_data,     \* FixedVec.data: slot -> bits stored there
    fv_len,      \* FixedVec.len
    fv_ret,      \* what the last call on the FixedVec returned, and its argument
    ev_zst,      \* ErasedVec.item.layout.size() == 0
    ev_data,     \* the allocation at ErasedVec.head: element slot -> bits stored there
    ev_len,      \* ErasedVec.len
    ev_capacity, \* ErasedVec.capacity
    ev_ret,      \* what the last call on the ErasedVec returned, and its argument
    ev_stack,    \* history: the elements pushed and not yet popped, oldest first
    ev_plain,    \* history: only push, pop and clear were called since the vec was last empty
    ev_pushes,   \* history: the number of elements handed to push and push_many
    lay_usize,   \* size_of::<AtomicUsize>() of the target, in bytes
    lay_base,    \* the address at which a SyncQueue is placed
    lay_fields   \* the fields of SyncQueue laid out so far: name, offset, size

vars == <<zst, chan, sender, receiver, strong, mem, N, harness, head, tail, head_cache, tail_cache, buffer,
          ppc, p_op, p_value, p_tail, p_result,
          cpc, c_op, c_head, c_value, c_result, sent, received, log,
          p_len_tail, p_seen, c_len_tail, c_seen, p_prev, c_prev,
          sm_items, sm_keys, sm_indices, sm_ret, sm_map,
          st_items, st_generations, st_free_indices, st_ret, st_live, st_keys, st_cap,
          aq_N, aq_data, aq_head, aq_tail, aq_ret, aq_content, aq_start,
          fv_N, fv_data, fv_len, fv_ret,
          ev_zst, ev_data, ev_len, ev_capacity, ev_ret, ev_stack, ev_plain, ev_pushes,
          lay_usize, lay_base, lay_fields>>

lifeVars == <<zst, chan, sender, receiver, strong, mem>>
prodVars == <<ppc, p_op, p_value, p_tail, p_result>>
consVars == <<cpc, c_op, c_head, c_value, c_result>>
snapVars == <<p_len_tail, p_seen, c_len_tail, c_seen>>
prevVars == <<p_prev, c_prev>>

\* The variables of the other containers of the crate.
smVars == <<sm_items, sm_keys, sm_indices, sm_ret, sm_map>>
stVars == <<st_items, st_generations, st_free_indices, st_ret, st_live, st_keys, st_cap>>
aqVars == <<aq_N, aq_data, aq_head, aq_tail, aq_ret, aq_content, aq_start>>
fvVars == <<fv_N, fv_data, fv_len, fv_ret>>
evVars == <<ev_zst, ev_data, ev_len, ev_capacity, ev_ret, ev_stack, ev_plain, ev_pushes>>
layVars == <<lay_usize, lay_base, lay_fields>>
contVars == <<smVars, stVars, aqVars, fvVars, evVars, layVars>>
chanVars == <<lifeVars, N, harness, head, tail, head_cache, tail_cache, buffer,
              prodVars, consVars, sent, received, log, snapVars, prevVars>>

\* What a call on the SparseMap leaves alone.
notSm == <<chanVars, stVars, aqVars, fvVars, evVars, layVars>>

\* What a call on the Store leaves alone.
notSt == <<chanVars, smVars, aqVars, fvVars, evVars, layVars>>

\* What a call on the ArrayQueue leaves alone.
notAq == <<chanVars, smVars, stVars, fvVars, evVars, layVars>>

\* What a call on the FixedVec leaves alone.
notFv == <<chanVars, smVars, stVars, aqVars, evVars, layVars>>

\* What a call on the ErasedVec leaves alone.
notEv == <<chanVars, smVars, stVars, aqVars, fvVars, layVars>>

\* What laying out the fields of SyncQueue leaves alone.
notLay == <<chanVars, smVars, stVars, aqVars, fvVars, evVars>>

Uninit == 0

\* The one value of a zero-sized T, `()` in tests::zst.
Unit == 1

\* Result<(), T> and Option<T> as records.
Ok == [tag |-> "Ok", val |-> 0]
Err(v) == [tag |-> "Err", val |-> v]
Some(v) == [tag |-> "Some", val |-> v]
None == [tag |-> "None", val |-> 0]
Pending == [tag |-> "pending", val |-> 0]

\* Variant of the slot mapping that sends every position past the first lap
\* to slot 0.
Slot_FirstLap(p) == IF p < N THEN p ELSE 0

\* The physical slot of logical position p: `tail % N`, `head % N`.
Slot(p) == p % N

\* The i-th value the producer gets accepted: the test loops' i, or `()`.
Offered(i) == IF zst THEN Unit ELSE i

\* The value the producer offers next.
NextValue == Offered(Len(sent) + 1)

\* An entry of `mem`.
Mem(ev, what, val) == [ev |-> ev, what |-> what, val |-> val]

Event(op, arg, res) == [op |-> op, arg |-> arg, tag |-> res.tag, val |-> res.val]

Logged(ev) == IF harness = "single" THEN Append(log, ev) ELSE log

\* One thread drives both handles (tests try_send_receive, full): a call starts
\* only when the other handle is not inside a call.
MayCall(otherPc) ==
    /\ harness = "single" => (otherPc = "idle" /\ Len(log) < MaxLog)

\* Index: Free, or Used(index).
Free == [tag |-> "Free", index |-> 0]
Used(i) == [tag |-> "Used", index |-> i]

\* Length of the indirection table of a new SparseMap: vec![Index::Free; 8].
InitialIndices == 8

\* The history's entry for a key that was never inserted, and for one that
\* was inserted and then removed or cleared.
Absent == 0
Removed == -1

SmKeys == (0..MaxKey) \cup {InitialIndices}
SmItems == 1..MaxItem

\* SparseMap::new()
SparseMapNew ==
    /\ sm_items = <<>>
    /\ sm_keys = <<>>
    /\ sm_indices = [i \in 1..InitialIndices |-> Free]
    /\ sm_ret = [op |-> "new", key |-> 0, arg |-> 0, tag |-> "Unit", val |-> 0]
    /\ sm_map = [k \in SmKeys |-> Absent]

\* Store::new(), and the number of items the run is going to keep at once.
StoreNew ==
    /\ st_items = <<>>
    /\ st_generations = <<>>
    /\ st_free_indices = <<>>
    /\ st_ret = [op |-> "new", key |-> 0, arg |-> 0, tag |-> "Unit", val |-> 0]
    /\ st_live = {}
    /\ st_keys = {}

\* The Store is not used while another container is exercised.
StoreUnused == st_cap = 1

\* Before spsc_channel::<T, N>() is called: T and N are fixed, nothing exists.
ChannelNew ==
    /\ zst \in BOOLEAN
    /\ chan = "unbuilt"
    /\ sender = "none"
    /\ receiver = "none"
    /\ strong = 0
    /\ mem = <<>>
    /\ N \in 0..MaxN
    /\ harness \in {"threaded", "single"}
    /\ head = 0
    /\ tail = 0
    /\ head_cache = 0
    /\ tail_cache = 0
    /\ buffer = <<>>
    /\ ppc = "idle"
    /\ p_op = "try_send"
    /\ p_value = 0
    /\ p_tail = 0
    /\ p_result = Pending
    /\ cpc = "idle"
    /\ c_op = "try_receive"
    /\ c_head = 0
    /\ c_value = Uninit
    /\ c_result = Pending
    /\ sent = <<>>
    /\ received = <<>>
    /\ log = <<>>
    /\ p_len_tail = 0
    /\ p_seen = {}
    /\ c_len_tail = 0
    /\ c_seen = {}
    /\ p_prev = Pending
    /\ c_prev = Pending

\* The channel is not constructed while another container is exercised.
ChannelUnused ==
    /\ ~ zst
    /\ N = 0
    /\ harness = "single"

\* Width of usize in bits.  The language fixes no width: 16 is the narrowest
\* it has, and the arithmetic below is the same at 32 and 64.
USIZE_BITS == 16

\* usize::MAX + 1
UsizeRange == 2 ^ USIZE_BITS

\* A panic: an indexing panic of a Vec ("index out of bounds"), a failed
\* assertion, an arithmetic overflow in a build with overflow checks.
Panic == [tag |-> "Panic", val |-> 0]

\* usize::wrapping_add, usize::wrapping_sub
WrappingAdd(a, b) == (a + b) % UsizeRange
WrappingSub(a, b) == (a - b + UsizeRange) % UsizeRange

\* `a + b` on usize: past usize::MAX it panics in a build with overflow checks
\* and wraps in a build without, so both outcomes are kept.
Sum(n) == [tag |-> "Sum", val |-> n]

CheckedAdd(a, b) ==
    IF a + b < UsizeRange THEN {Sum(a + b)} ELSE {Panic, Sum((a + b) % UsizeRange)}

\* An ArrayQueue<T, n> that is empty with both counters at k; its slots hold
\* no element.
ArrayQueueAt(n, k) ==
    /\ aq_N = n
    /\ aq_data = [i \in 0..(n - 1) |-> Uninit]
    /\ aq_head = k
    /\ aq_tail = k
    /\ aq_ret = [op |-> "new", arg |-> 0, tag |-> "Unit", val |-> 0, dropped |-> <<>>]
    /\ aq_content = <<>>
    /\ aq_start = k

\* ArrayQueue::<T, n>::new()
ArrayQueueNew(n) == ArrayQueueAt(n, 0)

\* FixedVec::<T, n>::new(): no slot holds an element.
FixedVecNew(n) ==
    /\ fv_N = n
    /\ fv_data = [i \in 0..(n - 1) |-> Uninit]
    /\ fv_len = 0
    /\ fv_ret = [op |-> "new", arg |-> 0, tag |-> "Unit", val |-> 0]

\* Before an ErasedVec is constructed: its item type is fixed, nothing exists.
ErasedVecUnbuilt ==
    /\ ev_data = <<>>
    /\ ev_len = 0
    /\ ev_capacity = 0
    /\ ev_ret = [op |-> "none", arg |-> 0, tag |-> "Unit", val |-> 0, dropped |-> <<>>]
    /\ ev_stack = <<>>
    /\ ev_plain = TRUE
    /\ ev_pushes = 0

\* No field of SyncQueue is laid out yet, on a target whose usize has u bytes
\* and with the structure at address base.
LayoutAt(u, base) ==
    /\ lay_usize = u
    /\ lay_base = base
    /\ lay_fields = <<>>

\* The two vectors are not used while another container is exercised, and the
\* layout of SyncQueue is not looked at.
VecsUnused ==
    /\ FixedVecNew(1)
    /\ ev_zst = FALSE
    /\ ErasedVecUnbuilt
    /\ LayoutAt(8, 0)

\* The program starts with a channel to construct and with new containers.
Init ==
    /\ ChannelNew
    /\ SparseMapNew
    /\ StoreNew
    /\ StoreUnused
    /\ ArrayQueueNew(1)
    /\ VecsUnused

-----------------------------------------------------------------------------
(* Construction: spsc_channel, SyncQueue::new, allocate *)

\* Variant of the capacity assertion that accepts every capacity.
CapacityOk_Any(n) == TRUE

\* SyncQueue::new: `assert!(N > 0, "capacity must be greater than zero")`.
CapacityOk(n) == n > 0

\* Variant of allocate that allocates for every element type.
NeedsStorage_Always == TRUE

\* allocate: `if size_of::<T>() == 0 || capacity == 0 { return NonNull::dangling(); }`
\* FALSE when no storage is allocated.
NeedsStorage == ~ (zst \/ N = 0)

\* spsc_channel: SyncQueue::new() asserts the capacity and allocates the
\* storage, Arc::new moves the queue to the heap, and the Arc is cloned into
\* the Sender and kept in the Receiver.  A failed assertion panics.
Construct ==
    /\ chan = "unbuilt"
    /\ IF CapacityOk(N)
       THEN /\ chan' = "live"
            /\ buffer' = [s \in 0..(N - 1) |-> IF zst THEN Unit ELSE Uninit]
            /\ mem' = (IF NeedsStorage
                          THEN <<Mem("alloc", "storage", N)>>
                          ELSE <<>>)
                       \o <<Mem("alloc", "arc", 0)>>
            /\ strong' = 2
            /\ sender' = "alive"
            /\ receiver' = "alive"
       ELSE /\ chan' = "panicked"
            /\ UNCHANGED <<buffer, mem, strong, sender, receiver>>
    /\ UNCHANGED <<zst, N, harness, snapVars, prevVars, contVars, head, tail, head_cache, tail_cache,
                   prodVars, consVars, sent, received, log>>

-----------------------------------------------------------------------------
(* Producer: Sender::try_send, Sender::send, SyncQueue::push *)

\* Sender::try_send(value): enters push.
TrySend ==
    /\ sender = "alive"
    /\ ppc = "idle"
    /\ Len(sent) < MaxSends
    /\ MayCall(cpc)
    /\ ppc' = "push_load_tail"
    /\ p_op' = "try_send"
    /\ p_value' = NextValue
    /\ p_result' = Pending
    /\ p_prev' = IF p_op = "is_full" THEN p_result ELSE Pending
    /\ UNCHANGED <<lifeVars, N, harness, snapVars, c_prev, contVars, head, tail, head_cache, tail_cache, buffer,
                   p_tail, consVars, sent, received, log>>

\* Sender::send(value): enters the loop around try_send.
Send ==
    /\ sender = "alive"
    /\ ppc = "idle"
    /\ Len(sent) < MaxSends
    /\ MayCall(cpc)
    /\ ppc' = "push_load_tail"
    /\ p_op' = "send"
    /\ p_value' = NextValue
    /\ p_result' = Pending
    /\ p_prev' = Pending
    /\ UNCHANGED <<lifeVars, N, harness, snapVars, c_prev, contVars, head, tail, head_cache, tail_cache, buffer,
                   p_tail, consVars, sent, received, log>>

\* Variant of the first test that never trusts the cached head.
PushCacheFull_Always(t, limit) == TRUE

\* push's first test, `tail == (self.head_cache.get() + N)`, with the sum
\* already computed: TRUE when the cached head leaves no room.
PushCacheFull(t, limit) == t = limit

\* push: `let tail = self.tail.load(Relaxed)` and the test against the cache.
\* The sum `head_cache + N` can overflow.
PushLoadTail ==
    /\ ppc = "push_load_tail"
    /\ p_tail' = tail
    /\ \E sum \in CheckedAdd(head_cache, N) :
        IF sum = Panic
        THEN /\ ppc' = "panicked"
             /\ p_result' = Panic
        ELSE /\ ppc' = IF PushCacheFull(tail, sum.val) THEN "push_load_head" ELSE "push_write"
             /\ UNCHANGED p_result
    /\ UNCHANGED <<lifeVars, N, harness, snapVars, prevVars, contVars, head, tail, head_cache, tail_cache, buffer,
                   p_op, p_value, consVars, sent, received, log>>

\* Variant in which the non-blocking calls loop too.
Blocking_Always(op) == TRUE

\* Variant in which the blocking calls give up on the first failure.
Blocking_Never(op) == FALSE

\* Sender::send and Receiver::receive wrap the call in `loop { ... }`;
\* try_send and try_receive return what push and pop return.
Blocking(op) == op \in {"send", "receive"}

\* Variant of the full test that lets one push too many through.
PushFull_OffByOne(t, h) == t = h + N + 1

\* Variant of the full test that keeps one slot free.
PushFull_KeepsOneFree(t, h) == t + 1 >= h + N

\* push's second test, `tail == (head + N)`: TRUE when the buffer is full.
\* The sum is the one a build without overflow checks computes.
PushFull(t, h) == t = WrappingAdd(h, N)

\* Variant that hands back what the target slot holds.
PushRejected_SlotBits == buffer[Slot(p_tail)]

\* The value push hands back in `return Err(value)`.
PushRejected == p_value

\* Variant of the reload that reuses the cached head.
LoadedHead_Cached == head_cache

\* push: `self.head.load(Ordering::Acquire)`.
LoadedHead == head

\* push: `let head = self.head.load(Acquire); self.head_cache.set(head);`
\* and the second test; Err(value) returns to try_send, and send loops.
\* The sum `head + N` can overflow.
PushLoadHead ==
    /\ ppc = "push_load_head"
    /\ head_cache' = LoadedHead
    /\ \E sum \in CheckedAdd(LoadedHead, N) :
        IF sum = Panic
        THEN /\ ppc' = "panicked"
             /\ p_result' = Panic
             /\ UNCHANGED log
        ELSE IF PushFull(p_tail, LoadedHead)
        THEN IF ~ Blocking(p_op)
             THEN /\ ppc' = "idle"
                  /\ p_result' = Err(PushRejected)
                  /\ log' = Logged(Event("send", p_value, Err(PushRejected)))
             ELSE /\ ppc' = "push_load_tail"
                  /\ UNCHANGED <<p_result, log>>
        ELSE /\ ppc' = "push_write"
             /\ UNCHANGED <<p_result, log>>
    /\ p_prev' = IF ppc' = "push_write" THEN p_prev ELSE Pending
    /\ UNCHANGED <<lifeVars, N, harness, snapVars, c_prev, contVars, head, tail, tail_cache, buffer,
                   p_op, p_value, p_tail, consVars, sent, received>>

\* Variant in which the slot write has not happened when tail is stored.
PushWrite_Late ==
    /\ ppc = "push_write"
    /\ ppc' = "push_store_tail"
    /\ UNCHANGED <<lifeVars, N, harness, snapVars, prevVars, contVars, head, tail, head_cache, tail_cache, buffer,
                   p_op, p_value, p_tail, p_result, consVars, sent, received, log>>

\* push: `self.buffer.as_ptr().offset((tail % N) as isize).write(value)`.
PushWrite ==
    /\ ppc = "push_write"
    /\ buffer' = [buffer EXCEPT ![Slot(p_tail)] = p_value]
    /\ ppc' = "push_store_tail"
    /\ UNCHANGED <<lifeVars, N, harness, snapVars, prevVars, contVars, head, tail, head_cache, tail_cache,
                   p_op, p_value, p_tail, p_result, consVars, sent, received, log>>

\* push: `self.tail.store(tail + 1, Release); Ok(())`.  The sum can overflow.
PushStoreTail ==
    /\ ppc = "push_store_tail"
    /\ \E sum \in CheckedAdd(p_tail, 1) :
        IF sum = Panic
        THEN /\ ppc' = "panicked"
             /\ p_result' = Panic
             /\ UNCHANGED <<tail, sent, log>>
        ELSE /\ tail' = sum.val
             /\ sent' = Append(sent, p_value)
             /\ ppc' = "idle"
             /\ p_result' = Ok
             /\ log' = Logged(Event("send", p_value, Ok))
    /\ p_prev' = Pending
    /\ UNCHANGED <<lifeVars, N, harness, snapVars, c_prev, contVars, head, head_cache, tail_cache, buffer,
                   p_op, p_value, p_tail, consVars, received>>

-----------------------------------------------------------------------------
(* Consumer: Receiver::try_receive, Receiver::receive, SyncQueue::pop *)

\* Receiver::try_receive(): enters pop.
TryReceive ==
    /\ receiver = "alive"
    /\ cpc = "idle"
    /\ MayCall(ppc)
    /\ cpc' = "pop_load_head"
    /\ c_op' = "try_receive"
    /\ c_result' = Pending
    /\ c_prev' = IF c_op = "is_empty" THEN c_result ELSE Pending
    /\ UNCHANGED <<lifeVars, N, harness, snapVars, p_prev, contVars, head, tail, head_cache, tail_cache, buffer,
                   prodVars, c_head, c_value, sent, received, log>>

\* Receiver::receive(): enters the loop around try_receive.
Receive ==
    /\ receiver = "alive"
    /\ cpc = "idle"
    /\ MayCall(ppc)
    /\ cpc' = "pop_load_head"
    /\ c_op' = "receive"
    /\ c_result' = Pending
    /\ c_prev' = Pending
    /\ UNCHANGED <<lifeVars, N, harness, snapVars, p_prev, contVars, head, tail, head_cache, tail_cache, buffer,
                   prodVars, c_head, c_value, sent, received, log>>

\* pop: `let head = self.head.load(Relaxed)` and the test against the cache.
PopLoadHead ==
    /\ cpc = "pop_load_head"
    /\ c_head' = head
    /\ cpc' = IF head = tail_cache THEN "pop_load_tail" ELSE "pop_read"
    /\ UNCHANGED <<lifeVars, N, harness, snapVars, prevVars, contVars, head, tail, head_cache, tail_cache, buffer,
                   prodVars, c_op, c_value, c_result, sent, received, log>>

\* Variant of the empty test that reports one remaining element as none.
PopEmpty_Lag(h, t) == h + 1 >= t

\* Variant of the empty test that never reports empty.
PopEmpty_Never(h, t) == FALSE

\* pop's second test, `head == tail`: TRUE when the buffer is empty.
PopEmpty(h, t) == h = t

\* pop: `let tail = self.tail.load(Acquire); self.tail_cache.set(tail);`
\* and the second test; None returns to try_receive, and receive loops.
PopLoadTail ==
    /\ cpc = "pop_load_tail"
    /\ tail_cache' = tail
    /\ IF PopEmpty(c_head, tail)
       THEN IF ~ Blocking(c_op)
            THEN /\ cpc' = "idle"
                 /\ c_result' = None
                 /\ log' = Logged(Event("receive", 0, None))
            ELSE /\ cpc' = "pop_load_head"
                 /\ UNCHANGED <<c_result, log>>
       ELSE /\ cpc' = "pop_read"
            /\ UNCHANGED <<c_result, log>>
    /\ c_prev' = IF cpc' = "pop_read" THEN c_prev ELSE Pending
    /\ UNCHANGED <<lifeVars, N, harness, snapVars, p_prev, contVars, head, tail, head_cache, buffer,
                   prodVars, c_op, c_head, c_value, sent, received>>

\* Variant in which the read clears the slot it moves the value out of.
PopRead_Take ==
    /\ cpc = "pop_read"
    /\ c_value' = buffer[Slot(c_head)]
    /\ buffer' = [buffer EXCEPT ![Slot(c_head)] = Uninit]
    /\ cpc' = "pop_store_head"
    /\ UNCHANGED <<lifeVars, N, harness, snapVars, prevVars, contVars, head, tail, head_cache, tail_cache,
                   prodVars, c_op, c_head, c_result, sent, received, log>>

\* pop: `self.buffer.as_ptr().offset((head % N) as isize).read()`.
PopRead ==
    /\ cpc = "pop_read"
    /\ c_value' = buffer[Slot(c_head)]
    /\ cpc' = "pop_store_head"
    /\ UNCHANGED <<lifeVars, N, harness, snapVars, prevVars, contVars, head, tail, head_cache, tail_cache, buffer,
                   prodVars, c_op, c_head, c_result, sent, received, log>>

\* pop: `self.head.store(head + 1, Release); Some(value)`.  The sum can overflow.
PopStoreHead ==
    /\ cpc = "pop_store_head"
    /\ \E sum \in CheckedAdd(c_head, 1) :
        IF sum = Panic
        THEN /\ cpc' = "panicked"
             /\ c_result' = Panic
             /\ UNCHANGED <<head, received, log>>
        ELSE /\ head' = sum.val
             /\ received' = Append(received, c_value)
             /\ cpc' = "idle"
             /\ c_result' = Some(c_value)
             /\ log' = Logged(Event("receive", 0, Some(c_value)))
    /\ c_prev' = Pending
    /\ UNCHANGED <<lifeVars, N, harness, snapVars, p_prev, contVars, tail, head_cache, tail_cache, buffer,
                   prodVars, c_op, c_head, c_value, sent>>

-----------------------------------------------------------------------------
(* Teardown: drop of the handles, Arc, Drop for SyncQueue *)

\* Variant of the drop loop that starts at position 0 instead of head.
DropPositions_FromZero == [i \in 1..tail |-> i - 1]

\* Drop for SyncQueue: `for i in head..tail`, the positions in loop order.
DropPositions == [i \in 1..(tail - head) |-> head + i - 1]

\* Drop for SyncQueue: nothing for a zero-sized T (`return`); otherwise
\* drop_in_place of slot `i % N` for every position of the loop, then
\* dealloc of the storage with the layout of N elements it was allocated with.
QueueDrop ==
    IF zst
    THEN <<>>
    ELSE [i \in 1..Len(DropPositions) |->
             Mem("drop", "element", buffer[Slot(DropPositions[i])])]
         \o <<Mem("dealloc", "storage", N)>>

\* Variant in which every handle that goes away destroys the queue.
LastOwner_Any(count) == TRUE

\* Arc's drop: the handle that takes the strong count from 1 to 0 destroys
\* the SyncQueue and frees the Arc's allocation.
LastOwner(count) == count = 1

\* What dropping one handle does to the queue.
Release ==
    /\ strong' = strong - 1
    /\ IF LastOwner(strong)
       THEN /\ chan' = "destroyed"
            /\ mem' = mem \o <<Mem("teardown", "queue", 0)>> \o QueueDrop
                          \o <<Mem("dealloc", "arc", 0)>>
       ELSE UNCHANGED <<chan, mem>>

\* The Sender goes out of scope: its Arc is dropped.  A handle is not
\* dropped inside one of its own calls (they borrow it).
DropSender ==
    /\ sender = "alive"
    /\ ppc = "idle"
    /\ harness = "single" => cpc = "idle"
    /\ sender' = "dropped"
    /\ Release
    /\ UNCHANGED <<zst, receiver, N, harness, snapVars, prevVars, contVars, head, tail, head_cache, tail_cache,
                   buffer, prodVars, consVars, sent, received, log>>

\* The Receiver goes out of scope: its Arc is dropped.
DropReceiver ==
    /\ receiver = "alive"
    /\ cpc = "idle"
    /\ harness = "single" => ppc = "idle"
    /\ receiver' = "dropped"
    /\ Release
    /\ UNCHANGED <<zst, sender, N, harness, snapVars, prevVars, contVars, head, tail, head_cache, tail_cache,
                   buffer, prodVars, consVars, sent, received, log>>

-----------------------------------------------------------------------------

Next ==
    \/ Construct
    \/ DropSender
    \/ DropReceiver
    \/ TrySend
    \/ Send
    \/ PushLoadTail
    \/ PushLoadHead
    \/ PushWrite
    \/ PushStoreTail
    \/ TryReceive
    \/ Receive
    \/ PopLoadHead
    \/ PopLoadTail
    \/ PopRead
    \/ PopStoreHead

Spec == Init /\ [][Next]_vars

-----------------------------------------------------------------------------
(* Two threads that keep running: tests::threaded, threaded_one_capacity *)

\* Every step of the thread that owns the Sender.
ProducerStep ==
    \/ TrySend
    \/ Send
    \/ PushLoadTail
    \/ PushLoadHead
    \/ PushWrite
    \/ PushStoreTail

\* Every step of the thread that owns the Receiver.
ConsumerStep ==
    \/ TryReceive
    \/ Receive
    \/ PopLoadHead
    \/ PopLoadTail
    \/ PopRead
    \/ PopStoreHead

\* A channel of capacity N >= 1 shared by two threads.
LiveInit ==
    /\ Init
    /\ harness = "threaded"
    /\ N >= 1

\* The handles live in the two threads' loops and are not dropped while the
\* threads run.
LiveNext ==
    \/ Construct
    \/ ProducerStep
    \/ ConsumerStep

\* Both threads are scheduled again and again: a thread that can take a
\* step eventually takes one.
LiveSpec ==
    /\ LiveInit
    /\ [][LiveNext]_vars
    /\ WF_vars(Construct)
    /\ WF_vars(ProducerStep)
    /\ WF_vars(ConsumerStep)

-----------------------------------------------------------------------------
(* Long runs: the counters close to usize::MAX *)

\* A SyncQueue<T, n> shared by two threads after k rounds of one accepted
\* try_send followed by one try_receive: both counters are at k, head_cache
\* holds the head that push last reloaded (it reloads when tail reaches
\* head_cache + n), tail_cache holds the tail that the last pop reloaded.
\* The slots hold bits of elements that were moved out; the histories start
\* here.
ChannelAt(n, k) ==
    /\ zst = FALSE
    /\ chan = "live"
    /\ sender = "alive"
    /\ receiver = "alive"
    /\ strong = 2
    /\ mem = <<Mem("alloc", "storage", n), Mem("alloc", "arc", 0)>>
    /\ N = n
    /\ harness = "threaded"
    /\ head = k
    /\ tail = k
    /\ head_cache = n * ((k - 1) \div n)
    /\ tail_cache = k
    /\ buffer = [s \in 0..(n - 1) |-> Uninit]
    /\ ppc = "idle"
    /\ p_op = "try_send"
    /\ p_value = 0
    /\ p_tail = k - 1
    /\ p_result = Ok
    /\ cpc = "idle"
    /\ c_op = "try_receive"
    /\ c_head = k - 1
    /\ c_value = Uninit
    /\ c_result = Some(Uninit)
    /\ sent = <<>>
    /\ received = <<>>
    /\ log = <<>>
    /\ p_len_tail = 0
    /\ p_seen = {}
    /\ c_len_tail = 0
    /\ c_seen = {}
    /\ p_prev = Pending
    /\ c_prev = Pending

\* Two rounds before the counters reach usize::MAX, for every capacity.
WrapInit ==
    /\ \E n \in 1..MaxN : ChannelAt(n, UsizeRange - 2)
    /\ SparseMapNew
    /\ StoreNew
    /\ StoreUnused
    /\ ArrayQueueNew(1)
    /\ VecsUnused

\* The two threads go on sending and receiving.
WrapNext ==
    \/ ProducerStep
    \/ ConsumerStep

WrapSpec == WrapInit /\ [][WrapNext]_vars

-----------------------------------------------------------------------------
(* Snapshot queries: SyncQueue::len / is_empty / is_full, forwarded by both *)
(* handles.  They take &self while try_send / send / try_receive / receive  *)
(* take &mut self, so a query through a handle never overlaps a push or pop *)
(* through the same handle; the other side runs freely.                     *)

\* The outcomes of a query.
Length(n) == [tag |-> "Len", val |-> n]
Bool(b) == [tag |-> IF b THEN "true" ELSE "false", val |-> 0]

\* usize subtraction `a - b`: below zero it overflows (a panic in a build with
\* overflow checks, a wrapped value in one without).
Overflow == [tag |-> "Overflow", val |-> 0]

Minus(a, b) == IF a >= b THEN Length(a - b) ELSE Overflow

\* Variant of len's second load that takes the producer's cached head.
LenHead_Cached == head_cache

\* len's second load: self.head.load(Acquire).
LenHead == head

\* Variant of is_full that needs more than N elements.
IsFull_Beyond(n) == n > N

\* is_full: self.len() >= N.
IsFull(n) == n >= N

\* is_empty: self.len() == 0.
IsEmpty(n) == n = 0

\* What the query `op` returns when len() evaluates to `l`.
Answer(op, l) ==
    IF l = Overflow THEN Overflow
    ELSE CASE op = "len" -> l
           [] op = "is_empty" -> Bool(IsEmpty(l.val))
           [] op = "is_full" -> Bool(IsFull(l.val))

Queries == {"len", "is_empty", "is_full"}

\* tx.len(), tx.is_empty() or tx.is_full() is called.
SenderQuery ==
    /\ sender = "alive"
    /\ ppc = "idle"
    /\ \E op \in Queries : p_op' = op
    /\ ppc' = "len_load_tail"
    /\ p_result' = Pending
    /\ p_seen' = {}
    /\ p_prev' = Pending
    /\ UNCHANGED <<lifeVars, N, harness, c_prev, contVars, head, tail, head_cache, tail_cache, buffer,
                   p_value, p_tail, consVars, sent, received, log,
                   p_len_tail, c_len_tail, c_seen>>

\* self.tail.load(Acquire)
SenderLenLoadTail ==
    /\ ppc = "len_load_tail"
    /\ p_len_tail' = tail
    /\ p_seen' = p_seen \cup {tail - head}
    /\ ppc' = "len_load_head"
    /\ UNCHANGED <<lifeVars, N, harness, prevVars, contVars, head, tail, head_cache, tail_cache, buffer,
                   p_op, p_value, p_tail, p_result, consVars, sent, received, log,
                   c_len_tail, c_seen>>

\* self.head.load(Acquire), the subtraction, and the return: the call's
\* temporaries end with it.
SenderLenLoadHead ==
    /\ ppc = "len_load_head"
    /\ p_result' = Answer(p_op, Minus(p_len_tail, LenHead))
    /\ ppc' = "idle"
    /\ p_len_tail' = 0
    /\ p_seen' = {}
    /\ UNCHANGED <<lifeVars, N, harness, prevVars, contVars, head, tail, head_cache, tail_cache, buffer,
                   p_op, p_value, p_tail, consVars, sent, received, log,
                   c_len_tail, c_seen>>

\* rx.len(), rx.is_empty() or rx.is_full() is called.
ReceiverQuery ==
    /\ receiver = "alive"
    /\ cpc = "idle"
    /\ \E op \in Queries : c_op' = op
    /\ cpc' = "len_load_tail"
    /\ c_result' = Pending
    /\ c_seen' = {}
    /\ c_prev' = Pending
    /\ UNCHANGED <<lifeVars, N, harness, p_prev, contVars, head, tail, head_cache, tail_cache, buffer,
                   c_head, c_value, prodVars, sent, received, log,
                   p_len_tail, p_seen, c_len_tail>>

\* self.tail.load(Acquire)
ReceiverLenLoadTail ==
    /\ cpc = "len_load_tail"
    /\ c_len_tail' = tail
    /\ c_seen' = c_seen \cup {tail - head}
    /\ cpc' = "len_load_head"
    /\ UNCHANGED <<lifeVars, N, harness, prevVars, contVars, head, tail, head_cache, tail_cache, buffer,
                   c_op, c_head, c_value, c_result, prodVars, sent, received, log,
                   p_len_tail, p_seen>>

\* self.head.load(Acquire), the subtraction, and the return: the call's
\* temporaries end with it.
ReceiverLenLoadHead ==
    /\ cpc = "len_load_head"
    /\ c_result' = Answer(c_op, Minus(c_len_tail, LenHead))
    /\ cpc' = "idle"
    /\ c_len_tail' = 0
    /\ c_seen' = {}
    /\ UNCHANGED <<lifeVars, N, harness, prevVars, contVars, head, tail, head_cache, tail_cache, buffer,
                   c_op, c_head, c_value, prodVars, sent, received, log,
                   p_len_tail, p_seen>>

QueryStep ==
    \/ SenderQuery
    \/ SenderLenLoadTail
    \/ SenderLenLoadHead
    \/ ReceiverQuery
    \/ ReceiverLenLoadTail
    \/ ReceiverLenLoadHead

\* Two threads, one with each handle, that push, pop and query at will.
QueryInit ==
    /\ Init
    /\ harness = "threaded"

QueryNext ==
    \/ LiveNext
    \/ QueryStep

QuerySpec == QueryInit /\ [][QueryNext]_vars

-----------------------------------------------------------------------------
(* SparseMap of src/src/sparse_map.rs.  A Vec is a sequence: element i of *)
(* the Vec is element i + 1 of the sequence.                               *)

OutOfBounds == [tag |-> "OutOfBounds", index |-> 0]

\* What a call on a container returned.
Returned(op, key, arg, res) ==
    [op |-> op, key |-> key, arg |-> arg, tag |-> res.tag, val |-> res.val]

\* () of a call that returns nothing.
Done == [tag |-> "Unit", val |-> 0]

\* Vec::swap_remove(index) for index < len: the last element takes the place
\* of the removed one.
SwapRemove(v, index) ==
    [j \in 1..(Len(v) - 1) |-> IF j = index + 1 THEN v[Len(v)] ELSE v[j]]

\* Vec::resize(new_len, value)
Resize(v, new_len, value) ==
    [j \in 1..new_len |-> IF j <= Len(v) THEN v[j] ELSE value]

\* SparseMap::get_index, on the indirection table `indices`
GetIndex(indices, key) ==
    IF key >= Len(indices) THEN OutOfBounds ELSE indices[key + 1]

SmGetIndex(key) == GetIndex(sm_indices, key)

\* SparseMap::get, on the fields `indices` and `items`
Get(indices, items, key) ==
    LET idx == GetIndex(indices, key) IN
    IF idx.tag = "Used"
    THEN IF idx.index < Len(items) THEN Some(items[idx.index + 1]) ELSE Panic
    ELSE None

SmGet(key) == Get(sm_indices, sm_items, key)

\* SparseMap::contains_key
SmContainsKey(key) == SmGetIndex(key).tag = "Used"

\* SparseMap::len
SmLen == Len(sm_items)

SmAlive == sm_ret.tag # "Panic"

\* SparseMap::insert(key, item)
SmInsert ==
    /\ SmAlive
    /\ \E key \in SmKeys, item \in SmItems :
        LET idx == SmGetIndex(key)
            resized == Resize(sm_indices, key * 2, Free)
            panics == \/ idx.tag = "Used" /\ idx.index >= Len(sm_items)
                      \/ idx.tag = "OutOfBounds" /\ key >= Len(resized)
        IN  /\ sm_items' =
                  IF panics THEN sm_items
                  ELSE IF idx.tag = "Used" THEN [sm_items EXCEPT ![idx.index + 1] = item]
                  ELSE Append(sm_items, item)
            /\ sm_keys' = IF panics \/ idx.tag = "Used" THEN sm_keys ELSE Append(sm_keys, key)
            /\ sm_indices' =
                  CASE idx.tag = "Used" -> sm_indices
                    [] idx.tag = "Free" ->
                         [sm_indices EXCEPT ![key + 1] = Used(Len(sm_items))]
                    [] idx.tag = "OutOfBounds" ->
                         IF panics THEN resized
                         ELSE [resized EXCEPT ![key + 1] = Used(Len(sm_items))]
            /\ sm_ret' = Returned("insert", key, item, IF panics THEN Panic ELSE Done)
            /\ sm_map' = IF panics THEN sm_map ELSE [sm_map EXCEPT ![key] = item]
    /\ UNCHANGED notSm

\* SparseMap::remove(key)
SmRemove ==
    /\ SmAlive
    /\ \E key \in SmKeys :
        LET idx == SmGetIndex(key)
            index == idx.index
            found == idx.tag = "Used"
            swapped == found /\ index < Len(sm_items)
            keys1 == IF swapped THEN SwapRemove(sm_keys, index) ELSE sm_keys
            fixed == swapped /\ index < Len(keys1)
        IN  /\ sm_items' = IF swapped THEN SwapRemove(sm_items, index) ELSE sm_items
            /\ sm_keys' = keys1
            /\ sm_indices' =
                  IF fixed THEN [sm_indices EXCEPT ![keys1[index + 1] + 1] = Used(index)]
                  ELSE sm_indices
            /\ sm_ret' = Returned("remove", key, 0,
                                  IF ~ found THEN None
                                  ELSE IF fixed THEN Some(sm_items[index + 1])
                                  ELSE Panic)
            /\ sm_map' = IF found /\ fixed THEN [sm_map EXCEPT ![key] = Removed] ELSE sm_map
    /\ UNCHANGED notSm

\* SparseMap::clear
SmClear ==
    /\ SmAlive
    /\ sm_items' = <<>>
    /\ sm_keys' = <<>>
    /\ sm_indices' = <<>>
    /\ sm_ret' = Returned("clear", 0, 0, Done)
    /\ sm_map' = [k \in SmKeys |-> IF sm_map[k] = Absent THEN Absent ELSE Removed]
    /\ UNCHANGED notSm

SparseMapInit ==
    /\ Init
    /\ ChannelUnused

SparseMapNext ==
    \/ SmInsert
    \/ SmRemove
    \/ SmClear

SparseMapSpec == SparseMapInit /\ [][SparseMapNext]_vars

-----------------------------------------------------------------------------
(* Store of src/src/store.rs.  A StoreKey is a u32 made of two bit fields, *)
(* the index in the low INDEX_BITS bits and the generation in the bits     *)
(* above them: it is written here as the record of its two fields.         *)

INDEX_BITS == 22

\* Width of StoreKey.key: u32.
KEY_BITS == 32

\* StoreKey::new(index, generation): (generation << INDEX_BITS) | index & INDEX_MASK.
\* The shift drops the bits of the generation that do not fit in the u32.
StoreKey(index, generation) ==
    [index |-> index % (2 ^ INDEX_BITS),
     generation |-> generation % (2 ^ (KEY_BITS - INDEX_BITS))]

\* self.generations[index] == key.generation()
KeyMatches(key) == st_generations[key.index + 1] = key.generation

\* Store::get (and get_mut)
StGet(key) == IF KeyMatches(key) THEN Some(st_items[key.index + 1]) ELSE None

\* Store::contains_key
StContainsKey(key) == KeyMatches(key)

\* The keys that push returned and remove was not called with since.
StLiveKeys == {e.key : e \in st_live}

\* A run that keeps several items recycles each index MaxCycles times at
\* most; a run that keeps one item is not limited.
MayRecycle(index) == st_cap = 1 \/ st_generations[index + 1] < MaxCycles

\* The keys the program calls set and remove with: the live ones, the one of
\* its last call, and those of the first generations of each index.
StArgs ==
    StLiveKeys
        \cup {k \in st_keys : k.generation <= MaxCycles}
        \cup (IF st_ret.op = "new" THEN {} ELSE {st_ret.key})

\* Store::push(item)
StPush ==
    \E item \in SmItems :
        LET recycled == st_free_indices # <<>>
            index == IF recycled THEN Head(st_free_indices) ELSE Len(st_items)
            items1 == IF recycled THEN [st_items EXCEPT ![index + 1] = item]
                      ELSE Append(st_items, item)
            generations1 == IF recycled THEN st_generations ELSE Append(st_generations, 0)
            key == StoreKey(index, generations1[index + 1])
        IN  /\ recycled \/ Len(st_items) < st_cap
            /\ st_items' = items1
            /\ st_generations' = generations1
            /\ st_free_indices' = IF recycled THEN Tail(st_free_indices) ELSE st_free_indices
            /\ st_ret' = [op |-> "push", key |-> key, arg |-> item, tag |-> "Key", val |-> 0]
            /\ st_live' = {e \in st_live : e.key # key} \cup {[key |-> key, item |-> item]}
            /\ st_keys' = st_keys \cup {key}
    /\ UNCHANGED <<st_cap, notSt>>

\* Store::set(key, item), with a key that push returned at some time
StSet ==
    \E key \in StArgs, item \in SmItems :
        /\ st_items' = IF KeyMatches(key) THEN [st_items EXCEPT ![key.index + 1] = item]
                       ELSE st_items
        /\ st_ret' = [op |-> "set", key |-> key, arg |-> item, tag |-> "Unit", val |-> 0]
        /\ st_live' = {IF e.key = key THEN [key |-> key, item |-> item] ELSE e : e \in st_live}
        /\ UNCHANGED <<st_generations, st_free_indices, st_keys, st_cap, notSt>>

\* Store::remove(key), with a key that push returned at some time
StRemove ==
    \E key \in StArgs :
        LET index == key.index IN
        /\ KeyMatches(key) => MayRecycle(index)
        /\ st_generations' =
              IF KeyMatches(key)
              THEN [st_generations EXCEPT ![index + 1] = st_generations[index + 1] + 1]
              ELSE st_generations
        /\ st_free_indices' =
              IF KeyMatches(key) THEN Append(st_free_indices, index) ELSE st_free_indices
        /\ st_ret' = [op |-> "remove", key |-> key, arg |-> 0, tag |-> "Unit", val |-> 0]
        /\ st_live' = {e \in st_live : e.key # key}
        /\ UNCHANGED <<st_items, st_keys, st_cap, notSt>>

\* A program that pushes, sets and removes with the keys it was given.
StoreInit ==
    /\ ChannelNew
    /\ ChannelUnused
    /\ SparseMapNew
    /\ StoreNew
    /\ st_cap \in 1..MaxSlots
    /\ ArrayQueueNew(1)
    /\ VecsUnused

StoreNext ==
    \/ StPush
    \/ StSet
    \/ StRemove

StoreSpec == StoreInit /\ [][StoreNext]_vars

-----------------------------------------------------------------------------
(* ArrayQueue of src/src/array_queue.rs.  head and tail are usize counters *)
(* that are never reduced modulo N: the code advances them with            *)
(* wrapping_add and subtracts them with wrapping_sub.                      *)

Min(a, b) == IF a <= b THEN a ELSE b

\* ArrayQueue::len
AqLen == WrappingSub(aq_tail, aq_head)

\* ArrayQueue::is_empty
AqIsEmpty == aq_head = aq_tail

\* ArrayQueue::get(index): the outcomes the builds can produce.
AqGet(index) ==
    IF index >= AqLen THEN {None}
    ELSE {IF sum = Panic THEN Panic ELSE Some(aq_data[sum.val % aq_N]) :
              sum \in CheckedAdd(aq_head, index)}

\* ArrayQueue::as_slices (and as_slices_mut): the pair (first, second).
AqAsSlices ==
    IF AqIsEmpty THEN <<<<>>, <<>>>>
    ELSE LET wrapped_head == aq_head % aq_N
             len == AqLen
             head_len == Min(aq_N - wrapped_head, len)
             tail_len == len - head_len
         IN  <<[i \in 1..head_len |-> aq_data[wrapped_head + i - 1]],
               [i \in 1..tail_len |-> aq_data[i - 1]]>>

AqAlive == aq_ret.tag # "Panic"

AqReturned(op, arg, res, dropped) ==
    [op |-> op, arg |-> arg, tag |-> res.tag, val |-> res.val, dropped |-> dropped]

\* self.len() == N
AqFull == AqLen = aq_N

\* ArrayQueue::push(value)
AqPush ==
    /\ AqAlive
    /\ WrappingSub(aq_tail, aq_start) < MaxPushes
    /\ \E value \in SmItems :
        LET index == aq_tail % aq_N IN
        IF AqFull
        THEN /\ aq_ret' = AqReturned("push", value, Panic, <<>>)
             /\ UNCHANGED <<aq_data, aq_tail, aq_content>>
        ELSE /\ aq_tail' = WrappingAdd(aq_tail, 1)
             /\ aq_data' = [aq_data EXCEPT ![index] = value]
             /\ aq_content' = Append(aq_content, value)
             /\ aq_ret' = AqReturned("push", value, Done, <<>>)
    /\ UNCHANGED <<aq_N, aq_head, aq_start, notAq>>

\* ArrayQueue::pop
AqPop ==
    /\ AqAlive
    /\ LET index == aq_head % aq_N IN
       IF AqIsEmpty
       THEN /\ aq_ret' = AqReturned("pop", 0, None, <<>>)
            /\ UNCHANGED <<aq_head, aq_content>>
       ELSE /\ aq_head' = WrappingAdd(aq_head, 1)
            /\ aq_ret' = AqReturned("pop", 0, Some(aq_data[index]), <<>>)
            /\ aq_content' = IF aq_content = <<>> THEN <<>> ELSE Tail(aq_content)
    /\ UNCHANGED <<aq_N, aq_data, aq_tail, aq_start, notAq>>

\* ArrayQueue::clear: both slices are taken, the counters reset, and then the
\* elements of the slices are destructed in place (their bits stay).
AqClear ==
    /\ AqAlive
    /\ aq_head' = 0
    /\ aq_tail' = 0
    /\ aq_start' = 0
    /\ aq_ret' = AqReturned("clear", 0, Done, AqAsSlices[1] \o AqAsSlices[2])
    /\ aq_content' = <<>>
    /\ UNCHANGED <<aq_N, aq_data, notAq>>

\* The values both counters can have when a run begins: 0 in a new queue, and
\* a value close to usize::MAX in a queue that this many pushes, each followed
\* by a pop, have gone through.
AqStarts == {0, UsizeRange - 2}

ArrayQueueInit ==
    /\ ChannelNew
    /\ ChannelUnused
    /\ SparseMapNew
    /\ StoreNew
    /\ StoreUnused
    /\ \E n \in 1..MaxQueueN, k \in AqStarts : ArrayQueueAt(n, k)
    /\ VecsUnused

ArrayQueueNext ==
    \/ AqPush
    \/ AqPop
    \/ AqClear

ArrayQueueSpec == ArrayQueueInit /\ [][ArrayQueueNext]_vars

-----------------------------------------------------------------------------
(* FixedVec of src/src/fixed_vec.rs: an array of N slots and the number of *)
(* elements stored in its first slots.  A slot past len keeps the bits     *)
(* that were last written to it.                                           *)

FvAlive == fv_ret.tag # "Panic"

FvReturned(op, arg, res) == [op |-> op, arg |-> arg, tag |-> res.tag, val |-> res.val]

\* Variant of the swap that only copies slot b over slot a.
Swap_CopyOnly(v, a, b) == [v EXCEPT ![a] = v[b]]

\* <[T]>::swap(a, b)
Swap(v, a, b) == [v EXCEPT ![a] = v[b], ![b] = v[a]]

\* FixedVec::push(value)
FvPush ==
    /\ FvAlive
    /\ \E value \in 1..MaxVecN :
        IF fv_len = fv_N
        THEN /\ fv_ret' = FvReturned("push", value, Panic)
             /\ UNCHANGED <<fv_data, fv_len>>
        ELSE /\ fv_data' = [fv_data EXCEPT ![fv_len] = value]
             /\ fv_len' = fv_len + 1
             /\ fv_ret' = FvReturned("push", value, Done)
    /\ UNCHANGED <<fv_N, notFv>>

\* FixedVec::pop
FvPop ==
    /\ FvAlive
    /\ IF fv_len = 0
       THEN /\ fv_ret' = FvReturned("pop", 0, None)
            /\ UNCHANGED fv_len
       ELSE /\ fv_len' = fv_len - 1
            /\ fv_ret' = FvReturned("pop", 0, Some(fv_data[fv_len']))
    /\ UNCHANGED <<fv_N, fv_data, notFv>>

\* FixedVec::swap_remove(index)
FvSwapRemove ==
    /\ FvAlive
    /\ \E index \in 0..(MaxVecN + 1) :
        IF index >= fv_len
        THEN /\ fv_ret' = FvReturned("swap_remove", index, None)
             /\ UNCHANGED <<fv_data, fv_len>>
        ELSE /\ fv_len' = fv_len - 1
             /\ fv_data' = Swap(fv_data, index, fv_len')
             /\ fv_ret' = FvReturned("swap_remove", index, Some(fv_data'[fv_len']))
    /\ UNCHANGED <<fv_N, notFv>>

\* FixedVec::clear
FvClear ==
    /\ FvAlive
    /\ fv_len' = 0
    /\ fv_ret' = FvReturned("clear", 0, Done)
    /\ UNCHANGED <<fv_N, fv_data, notFv>>

FixedVecInit ==
    /\ ChannelNew
    /\ ChannelUnused
    /\ SparseMapNew
    /\ StoreNew
    /\ StoreUnused
    /\ ArrayQueueNew(1)
    /\ \E n \in 0..MaxVecN : FixedVecNew(n)
    /\ ev_zst = FALSE
    /\ ErasedVecUnbuilt
    /\ LayoutAt(8, 0)

FixedVecNext ==
    \/ FvPush
    \/ FvPop
    \/ FvSwapRemove
    \/ FvClear

FixedVecSpec == FixedVecInit /\ [][FixedVecNext]_vars

-----------------------------------------------------------------------------
(* ErasedVec of src/src/erased_vec.rs: one allocation of `capacity` element *)
(* slots at `head`, of which the first `len` hold the elements.  pop and   *)
(* swap_remove hand out a pointer into the allocation: the result records  *)
(* the bits that pointer leads to.  For a zero-sized item type the layout  *)
(* has size 0, which alloc and realloc do not allow: the allocator then    *)
(* either hands out a pointer or fails, and a failure aborts the process.  *)

\* const DEFAULT_CAPACITY
DEFAULT_CAPACITY == 8

\* The capacities ErasedVec::with_capacity is called with; ErasedVec::new
\* passes DEFAULT_CAPACITY.
EvCapacities == {0, 1, 3, DEFAULT_CAPACITY}

\* handle_alloc_error: the process is aborted.
Abort == [tag |-> "Abort", val |-> 0]

\* What an allocation of the given layout can do.
Allocated == IF ev_zst THEN {Done, Abort} ELSE {Done}

EvBuilt == ev_ret.op # "none"

EvAlive == EvBuilt /\ ev_ret.tag \notin {"Panic", "Abort"}

\* The part of a run in which every method is called.
EvMixed == ev_pushes <= MaxVecMixed

EvReturned(op, arg, res, dropped) ==
    [op |-> op, arg |-> arg, tag |-> res.tag, val |-> res.val, dropped |-> dropped]

\* The bits of a slot that was never written.
EvBlank == IF ev_zst THEN Unit ELSE Uninit

\* The i-th element handed to the vec: the test loops' i, or the one value
\* of a zero-sized type.
EvValue(i) == IF ev_zst THEN Unit ELSE i

\* Variant of next_power_of_two that returns its argument.
NextPowerOfTwo_Exact(n) == n

\* usize::next_power_of_two
NextPowerOfTwo(n) ==
    LET powers == {2 ^ k : k \in 0..(USIZE_BITS - 1)} IN
    CHOOSE p \in powers : p >= n /\ \A q \in powers : q >= n => p <= q

\* ErasedVec::reserve(additional): the capacity it leaves.
Reserve(additional) ==
    LET required == ev_len + additional IN
    IF required > ev_capacity THEN NextPowerOfTwo(required) ELSE ev_capacity

\* alloc::realloc in ErasedVec::grow: the old slots keep their bits.
Grow(new_capacity) ==
    [i \in 0..(new_capacity - 1) |-> IF i < ev_capacity THEN ev_data[i] ELSE EvBlank]

\* The element slot that get_unchecked(index) points to.
EvAt(data, index) == IF index \in DOMAIN data THEN data[index] ELSE EvBlank

\* ErasedVec::with_capacity::<T>(capacity), ErasedVec::new::<T>()
EvWithCapacity ==
    /\ ~ EvBuilt
    /\ \E capacity \in EvCapacities :
        IF capacity = 0
        THEN /\ ev_ret' = EvReturned("with_capacity", capacity, Panic, <<>>)
             /\ UNCHANGED <<ev_data, ev_capacity>>
        ELSE \E res \in Allocated :
             /\ ev_ret' = EvReturned("with_capacity", capacity, res, <<>>)
             /\ IF res = Abort
                THEN UNCHANGED <<ev_data, ev_capacity>>
                ELSE /\ ev_data' = [i \in 0..(capacity - 1) |-> EvBlank]
                     /\ ev_capacity' = capacity
    /\ UNCHANGED <<ev_zst, ev_len, ev_stack, ev_plain, ev_pushes, notEv>>

\* ErasedVec::push(value)
EvPush ==
    /\ EvAlive
    /\ ev_pushes < MaxVecPushes
    /\ LET value == EvValue(ev_pushes + 1)
           capacity == Reserve(1)
       IN  \E res \in (IF capacity = ev_capacity THEN {Done} ELSE Allocated) :
           /\ ev_ret' = EvReturned("push", value, res, <<>>)
           /\ IF res = Abort
              THEN UNCHANGED <<ev_data, ev_len, ev_capacity, ev_stack, ev_pushes>>
              ELSE /\ ev_capacity' = capacity
                   /\ ev_data' = [Grow(capacity) EXCEPT ![ev_len] = value]
                   /\ ev_len' = ev_len + 1
                   /\ ev_stack' = Append(ev_stack, value)
                   /\ ev_pushes' = ev_pushes + 1
    /\ UNCHANGED <<ev_zst, ev_plain, notEv>>

\* ErasedVec::push_many(values, count), with values pointing to `count`
\* elements: size_of one element is copied, len grows by count.
EvPushMany ==
    /\ EvAlive
    /\ EvMixed
    /\ \E count \in 1..2 :
        /\ ev_pushes + count <= MaxVecPushes
        /\ LET values == [i \in 1..count |-> EvValue(ev_pushes + i)]
               capacity == Reserve(count)
           IN  \E res \in (IF capacity = ev_capacity THEN {Done} ELSE Allocated) :
               /\ ev_ret' = EvReturned("push_many", count, res, <<>>)
               /\ IF res = Abort
                  THEN UNCHANGED <<ev_data, ev_len, ev_capacity, ev_stack, ev_plain, ev_pushes>>
                  ELSE /\ ev_capacity' = capacity
                       /\ ev_data' = [Grow(capacity) EXCEPT ![ev_len] = values[1]]
                       /\ ev_len' = ev_len + count
                       /\ ev_stack' = ev_stack \o values
                       /\ ev_plain' = (ev_plain /\ count = 1)
                       /\ ev_pushes' = ev_pushes + count
    /\ UNCHANGED <<ev_zst, notEv>>

\* ErasedVec::pop
EvPop ==
    /\ EvAlive
    /\ IF ev_len > 0
       THEN /\ ev_len' = ev_len - 1
            /\ ev_ret' = EvReturned("pop", 0, Some(EvAt(ev_data, ev_len')), <<>>)
            /\ ev_stack' = SubSeq(ev_stack, 1, ev_len')
            /\ ev_plain' = (ev_plain \/ ev_len' = 0)
       ELSE /\ ev_ret' = EvReturned("pop", 0, None, <<>>)
            /\ UNCHANGED <<ev_len, ev_stack, ev_plain>>
    /\ UNCHANGED <<ev_zst, ev_data, ev_capacity, ev_pushes, notEv>>

\* ErasedVec::pop_many(count)
EvPopMany ==
    /\ EvAlive
    /\ EvMixed
    /\ \E count \in 0..2 :
        IF ev_len >= count
        THEN /\ ev_len' = ev_len - count
             /\ ev_ret' = EvReturned("pop_many", count, Some(EvAt(ev_data, ev_len')), <<>>)
             /\ ev_stack' = SubSeq(ev_stack, 1, ev_len')
             /\ ev_plain' = (ev_plain \/ ev_len' = 0)
        ELSE /\ ev_ret' = EvReturned("pop_many", count, None, <<>>)
             /\ UNCHANGED <<ev_len, ev_stack, ev_plain>>
    /\ UNCHANGED <<ev_zst, ev_data, ev_capacity, ev_pushes, notEv>>

\* ErasedVec::swap_remove(index), with swap_remove_unchecked and
\* pop_unchecked
EvSwapRemove ==
    /\ EvAlive
    /\ EvMixed
    /\ \E index \in 0..(MaxVecN + 1) :
        IF index < ev_len
        THEN /\ ev_len' = ev_len - 1
             /\ ev_data' = IF index = ev_len - 1 THEN ev_data
                           ELSE Swap(ev_data, ev_len', index)
             /\ ev_ret' = EvReturned("swap_remove", index, Some(EvAt(ev_data', ev_len')), <<>>)
             /\ ev_stack' = SwapRemove(ev_stack, index)
             /\ ev_plain' = (ev_plain \/ ev_len' = 0)
        ELSE /\ ev_ret' = EvReturned("swap_remove", index, None, <<>>)
             /\ UNCHANGED <<ev_data, ev_len, ev_stack, ev_plain>>
    /\ UNCHANGED <<ev_zst, ev_capacity, ev_pushes, notEv>>

\* ErasedVec::clear: the first len slots are disposed of.  Disposing of a
\* slot that holds no element is undefined: it completes or it crashes.
EvClear ==
    /\ EvAlive
    /\ LET slots == [i \in 1..ev_len |-> EvAt(ev_data, i - 1)] IN
       \E res \in (IF slots = ev_stack THEN {Done} ELSE {Done, Abort}) :
           ev_ret' = EvReturned("clear", 0, res, slots)
    /\ ev_len' = 0
    /\ ev_stack' = <<>>
    /\ ev_plain' = TRUE
    /\ UNCHANGED <<ev_zst, ev_data, ev_capacity, ev_pushes, notEv>>

ErasedVecInit ==
    /\ ChannelNew
    /\ ChannelUnused
    /\ SparseMapNew
    /\ StoreNew
    /\ StoreUnused
    /\ ArrayQueueNew(1)
    /\ FixedVecNew(1)
    /\ ev_zst \in BOOLEAN
    /\ ErasedVecUnbuilt
    /\ LayoutAt(8, 0)

ErasedVecNext ==
    \/ EvWithCapacity
    \/ EvPush
    \/ EvPushMany
    \/ EvPop
    \/ EvPopMany
    \/ EvSwapRemove
    \/ EvClear

ErasedVecSpec == ErasedVecInit /\ [][ErasedVecNext]_vars

-----------------------------------------------------------------------------
(* Layout of struct SyncQueue, #[repr(C, align(64))]: the fields are laid  *)
(* out in declaration order, each at the next offset that is a multiple   *)
(* of its alignment, and the structure starts at a multiple of 64.        *)

\* const CACHE_LINE
CACHE_LINE == 64

\* size_of::<AtomicUsize>() on the targets: 16, 32 and 64 bit.
UsizeBytes == {2, 4, 8}

Field(name, size, align) == [name |-> name, size |-> size, align |-> align]

\* Variant of the padding that leaves room for one counter only.
Pad_OneCounter(u) == CACHE_LINE - u

\* [u8; CACHE_LINE - 2 * USIZE]
Pad(u) == CACHE_LINE - 2 * u

\* The fields of SyncQueue in declaration order, for USIZE = u.
Fields(u) ==
    << Field("head", u, u), Field("tail_cache", u, u), Field("_pad1", Pad(u), 1),
       Field("tail", u, u), Field("head_cache", u, u), Field("_pad2", Pad(u), 1),
       Field("buffer", u, u) >>

\* The next multiple of align at or after n.
AlignUp(n, align) == ((n + align - 1) \div align) * align

\* The first offset past the fields laid out so far.
LayoutEnd ==
    IF lay_fields = <<>> THEN 0
    ELSE lay_fields[Len(lay_fields)].offset + lay_fields[Len(lay_fields)].size

\* The next field of the structure gets its offset.
LayoutField ==
    /\ Len(lay_fields) < Len(Fields(lay_usize))
    /\ LET f == Fields(lay_usize)[Len(lay_fields) + 1] IN
       lay_fields' = Append(lay_fields,
                            [name |-> f.name, offset |-> AlignUp(LayoutEnd, f.align),
                             size |-> f.size])
    /\ UNCHANGED <<lay_usize, lay_base, notLay>>

LayoutInit ==
    /\ ChannelNew
    /\ ChannelUnused
    /\ SparseMapNew
    /\ StoreNew
    /\ StoreUnused
    /\ ArrayQueueNew(1)
    /\ FixedVecNew(1)
    /\ ev_zst = FALSE
    /\ ErasedVecUnbuilt
    /\ \E u \in UsizeBytes, line \in 0..MaxLines : LayoutAt(u, CACHE_LINE * line)

LayoutNext == LayoutField

LayoutSpec == LayoutInit /\ [][LayoutNext]_vars

-----------------------------------------------------------------------------
(* Properties *)

\* The logical positions still enqueued.
Enqueued == head..(tail - 1)

\* The producer is between its capacity check and its tail store.
ProducerInSlot == ppc \in {"push_write", "push_store_tail"}

\* The consumer is between its availability check and its head store.
ConsumerInSlot == cpc \in {"pop_read", "pop_store_head"}

\* A producer step that ends a push with Err (try_send returns it, send retries).
PushFails == ppc = "push_load_head" /\ ppc' \in {"idle", "push_load_tail"}

\* A consumer step that ends a pop with None (try_receive returns it, receive retries).
PopFails == cpc = "pop_load_tail" /\ cpc' \in {"idle", "pop_load_head"}

\* In the single-threaded log: occupancy before the k-th completed call.
OccupancyBefore(k) ==
    Cardinality({i \in 1..(k - 1) : log[i].tag = "Ok"})
        - Cardinality({i \in 1..(k - 1) : log[i].tag = "Some"})

\* C1: under every interleaving of the producer (try_send / send) and the
\* consumer (try_receive / receive), the values returned by successful
\* receives are a prefix of the values accepted by successful sends: same
\* order, no gap, no duplicate, for every capacity and across wrap-arounds.
C1_Fifo ==
    /\ Len(received) <= Len(sent)
    /\ \A i \in 1..Len(received) : received[i] = sent[i]
    /\ \A i \in 1..Len(sent) : sent[i] = Offered(i)

\* C1 witness: two threads, capacity 1, the ring wrapped five times.
C1_Witness ==
    /\ harness = "threaded"
    /\ ~ zst
    /\ N = 1
    /\ Len(received) >= 5
    /\ p_op = "send"
    /\ c_op = "receive"

\* C2: in every reachable state, also in the middle of a push or a pop that
\* runs concurrently with the other side, head <= tail and tail - head <= N.
C2_Occupancy ==
    /\ head <= tail
    /\ tail - head <= N

\* C2 witness: the buffer is full after a wrap-around while a push and a pop
\* are both in progress.
C2_Witness ==
    /\ harness = "threaded"
    /\ tail - head = N
    /\ head > 0
    /\ ppc = "push_load_head"
    /\ cpc = "pop_store_head"

\* C8: whenever push is about to write the slot of logical position
\* t = tail, no position still enqueued maps to the same physical slot, and
\* the slot of every enqueued position still holds the value accepted for it.
C8_NoOverwrite ==
    /\ ppc = "push_write" =>
          /\ p_tail = tail
          /\ \A p \in Enqueued : Slot(p) # Slot(p_tail)
    /\ \A p \in Enqueued : buffer[Slot(p)] = sent[p + 1]

\* C8 witness: a push is about to write a slot that was used before, while
\* every other slot holds an unconsumed value.
C8_Witness ==
    /\ ppc = "push_write"
    /\ N >= 2
    /\ p_tail >= N
    /\ tail - head = N - 1

\* C9: the producer is never between its capacity check and its tail store
\* on physical slot s while the consumer is between its availability check
\* and its head store on the same slot s.
C9_NoSlotRace ==
    ~ (/\ ProducerInSlot
       /\ ConsumerInSlot
       /\ Slot(p_tail) = Slot(c_head))

\* C9 witness: both sides are inside their slot accesses at once (on
\* different slots).
C9_Witness ==
    /\ ppc = "push_write"
    /\ cpc = "pop_read"
    /\ p_tail >= N

\* In the single-threaded log: a call that follows exactly N accepted sends
\* and no receive returned Err with the value it was given.
C3_FullInLog ==
    \A k \in 1..Len(log) :
        (/\ \A i \in 1..k : log[i].op = "send"
         /\ Cardinality({i \in 1..(k - 1) : log[i].tag = "Ok"}) = N)
        => (log[k].tag = "Err" /\ log[k].val = log[k].arg)

\* C3: from a new channel, once exactly N sends have been accepted and no
\* receive was called, the next try_send returns Err carrying exactly the
\* value it was given; and a try_send that finds the buffer full returns at
\* its reload of head instead of waiting.
C3_CapacityBound ==
    /\ []C3_FullInLog
    /\ [][(/\ ppc = "push_load_head"
           /\ ppc' # ppc
           /\ p_op = "try_send"
           /\ tail = head + N)
          => (ppc' = "idle" /\ p_result' = Err(p_value))]_vars

\* C3 witness: N sends were accepted, no receive was called, and the next
\* try_send has returned.
C3_Witness ==
    /\ Len(log) = N + 1
    /\ N >= 2
    /\ \A i \in 1..Len(log) : log[i].op = "send"
    /\ log[N + 1].tag = "Err"
    /\ c_result = Pending

\* C4: the steps of a push that ends with Err (buffer full) leave head, tail,
\* every storage slot and both index caches as they were, although the
\* failing path stores the freshly loaded head into head_cache.
C4_FailedSendChangesNothing ==
    [][(/\ ppc' # ppc
        /\ \/ ppc \in {"idle", "push_load_tail"}
           \/ PushFails)
       => UNCHANGED <<head, tail, buffer, head_cache, tail_cache>>]_vars

\* C4 witness: a try_send has returned Err on a ring that had wrapped, with
\* the consumer in the middle of a pop.
C4_Witness ==
    /\ ppc = "idle"
    /\ p_result.tag = "Err"
    /\ head > 0
    /\ cpc = "pop_read"

\* In the single-threaded log: an empty try_receive, then an accepted send,
\* then a receive: the receive returned the value sent.
C5_SendThenReceive ==
    \A k \in 1..(Len(log) - 2) :
        (/\ log[k].op = "receive" /\ log[k].tag = "None"
         /\ log[k + 1].op = "send" /\ log[k + 1].tag = "Ok"
         /\ log[k + 2].op = "receive")
        => (log[k + 2].tag = "Some" /\ log[k + 2].val = log[k + 1].arg)

\* C5: a pop that loads tail while head == tail ends with None (try_receive
\* returns None at once), no pop is past its availability check while
\* head == tail, and the steps of a pop that ends with None leave head, tail,
\* the storage and both index caches unchanged; and in the single-threaded
\* log a try_receive that returned None, followed by an accepted send and a
\* receive, is followed by that receive returning the value sent.
C5_EmptyReceive ==
    /\ []C5_SendThenReceive
    /\ [](cpc \in {"pop_read", "pop_store_head"} => head < tail)
    /\ [][(/\ cpc' # cpc
           /\ \/ cpc \in {"idle", "pop_load_head"}
              \/ PopFails)
          => UNCHANGED <<head, tail, buffer, head_cache, tail_cache>>]_vars
    /\ [][(cpc = "pop_load_tail" /\ cpc' # cpc /\ head = tail)
          => (/\ PopFails
              /\ c_op = "try_receive" => (cpc' = "idle" /\ c_result' = None))]_vars

\* C5 witness: after some traffic, an empty try_receive, an accepted send and
\* a receive have completed in this order.
C5_Witness ==
    /\ Len(log) >= 5
    /\ log[Len(log) - 2].op = "receive"
    /\ log[Len(log) - 2].tag = "None"
    /\ log[Len(log) - 1].op = "send"
    /\ log[Len(log) - 1].tag = "Ok"
    /\ log[Len(log)].op = "receive"

\* The capacity of scenario A, `spsc_channel::<usize, 4>()`.
CapA == 4

\* C6: in the single-threaded log, a try_send that failed on a full buffer
\* followed by one successful receive is followed by a send that succeeds,
\* and a further send right after that one fails again; with capacity 4 the
\* log of five sends, a receive and a send reads Ok 1, Ok 2, Ok 3, Ok 4,
\* Err 5, Some 1, Ok 5.
C6_RoomAfterPop ==
    /\ \A k \in 1..(Len(log) - 2) :
          (/\ log[k].op = "send" /\ log[k].tag = "Err"
           /\ log[k + 1].op = "receive" /\ log[k + 1].tag = "Some"
           /\ log[k + 2].op = "send")
          => /\ log[k + 2].tag = "Ok"
             /\ log[k + 2].arg = log[k].val
             /\ (Len(log) >= k + 3 /\ log[k + 3].op = "send")
                   => (log[k + 3].tag = "Err" /\ log[k + 3].val = log[k + 3].arg)
    /\ (/\ N = CapA
        /\ ~ zst
        /\ Len(log) >= 7
        /\ \A i \in 1..5 : log[i].op = "send"
        /\ log[6].op = "receive"
        /\ log[7].op = "send")
       => /\ \A i \in 1..4 : log[i].tag = "Ok" /\ log[i].arg = i
          /\ log[5].tag = "Err" /\ log[5].arg = 5 /\ log[5].val = 5
          /\ log[6].tag = "Some" /\ log[6].val = 1
          /\ log[7].tag = "Ok" /\ log[7].arg = 5

\* C6 witness: scenario A has run on a channel of capacity 4 and the send
\* after it has failed again.
C6_Witness ==
    /\ N = CapA
    /\ ~ zst
    /\ Len(log) = 8
    /\ \A i \in 1..5 : log[i].op = "send"
    /\ log[6].op = "receive"
    /\ log[7].op = "send"
    /\ log[8].op = "send"
    /\ log[8].tag = "Err"

\* In the single-threaded log: a send was accepted iff fewer than N elements
\* were enqueued before it, a receive returned Some iff at least one was; and
\* the occupancy counted from the log is tail - head.
C7_IdlePeer ==
    /\ \A k \in 1..Len(log) :
          /\ log[k].op = "send" => (log[k].tag = "Ok" <=> OccupancyBefore(k) < N)
          /\ log[k].op = "receive" => (log[k].tag = "Some" <=> OccupancyBefore(k) > 0)
    /\ (harness = "single" /\ ppc = "idle" /\ cpc = "idle")
          => tail - head = OccupancyBefore(Len(log) + 1)

\* C7: a push ends with Err only if tail - head == N at the instant of its
\* acquire load of head, and a pop ends with None only if head == tail at
\* the instant of its acquire load of tail; and with the other side idle
\* (single-threaded log, where the occupancy before a call is the number of
\* accepted sends minus the number of successful receives) a send succeeds
\* iff the occupancy is below N and a receive returns Some iff it is above 0.
C7_NoSpuriousFailure ==
    /\ []C7_IdlePeer
    /\ [][PushFails => tail - head = N]_vars
    /\ [][PopFails => head = tail]_vars

\* C7 witness: a try_send is at its acquire load of head because its stale
\* head_cache suggests a full buffer, while the consumer has freed a slot and
\* is inside its next pop.
C7_Witness ==
    /\ harness = "threaded"
    /\ ppc = "push_load_head"
    /\ p_op = "try_send"
    /\ p_tail = head_cache + N
    /\ head > head_cache
    /\ head_cache > 0
    /\ cpc = "pop_load_tail"

\* A position about to be read has been written and published; a slot about
\* to be rewritten has had its previous occupant read and its head advanced.
C10_Published ==
    /\ cpc = "pop_read" =>
          /\ tail >= c_head + 1
          /\ buffer[Slot(c_head)] = sent[c_head + 1]
    /\ (ppc = "push_write" /\ p_tail >= N) =>
          /\ head >= p_tail - N + 1
          /\ Len(received) >= p_tail - N + 1
          /\ received[p_tail - N + 1] = buffer[Slot(p_tail)]

\* C10: the slot write precedes the store of tail + 1 and the slot read
\* precedes the store of head + 1; the consumer reads logical position p only
\* after the producer has written p and stored tail >= p + 1, and the
\* producer rewrites a physical slot only after the consumer has read its
\* previous occupant and stored the advanced head.
C10_PublicationOrder ==
    /\ []C10_Published
    /\ [][tail' # tail =>
            (/\ ppc = "push_store_tail"
             /\ tail' = tail + 1
             /\ buffer[Slot(tail)] = p_value)]_vars
    /\ [][head' # head =>
            (/\ cpc = "pop_store_head"
             /\ head' = head + 1
             /\ c_value = sent[head + 1])]_vars

\* C10 witness: the producer is about to rewrite a slot just freed while the
\* consumer is about to read the next position.
C10_Witness ==
    /\ ppc = "push_write"
    /\ p_tail >= N
    /\ head = p_tail - N + 1
    /\ cpc = "pop_read"

\* C11: in every reachable state head_cache <= head, tail <= head_cache + N,
\* head <= tail_cache and tail_cache <= tail: the producer's cached view never
\* shows more free space than exists and the consumer's never more elements.
C11_CachesSafe ==
    /\ head_cache <= head
    /\ tail <= head_cache + N
    /\ head <= tail_cache
    /\ tail_cache <= tail

\* C11 witness: both caches lag their counters while a push and a pop are in
\* progress on a ring that has wrapped.
C11_Witness ==
    /\ harness = "threaded"
    /\ head_cache < head
    /\ tail_cache < tail
    /\ head >= N
    /\ ppc = "push_write"
    /\ cpc = "pop_read"

\* C12: a step of push, successful or not, never changes head or tail_cache
\* and never changes a slot of a position in [head, tail); a step of pop,
\* successful or not, never changes tail, head_cache or any storage slot.
C12_OwnStateOnly ==
    /\ [][ppc' # ppc =>
            (/\ head' = head
             /\ tail_cache' = tail_cache
             /\ \A p \in Enqueued : buffer'[Slot(p)] = buffer[Slot(p)])]_vars
    /\ [][cpc' # cpc =>
            (/\ tail' = tail
             /\ head_cache' = head_cache
             /\ buffer' = buffer)]_vars

\* C12 witness: a push has written a reused slot next to unconsumed elements
\* while a pop has read its value and is about to store head.
C12_Witness ==
    /\ harness = "threaded"
    /\ ppc = "push_store_tail"
    /\ cpc = "pop_store_head"
    /\ p_tail >= N
    /\ tail - head >= 2

\* How many entries of `mem` record event ev on what.
Count(ev, what) ==
    Cardinality({i \in 1..Len(mem) : mem[i].ev = ev /\ mem[i].what = what})

\* How many destructor calls `mem` records for the element value v.
DropsOf(v) ==
    Cardinality({i \in 1..Len(mem) : mem[i].ev = "drop" /\ mem[i].val = v})

\* C13: when the channel is destroyed with K elements still enqueued
\* (positions head..tail), the destructor of each of them has run exactly
\* once and the destructor of no received element has run, for every element
\* type and every K in 0..N.
C13_TeardownExactlyOnce ==
    chan = "destroyed" =>
        /\ Count("drop", "element") = tail - head
        /\ ~ zst =>
              \A i \in 1..Len(sent) :
                  DropsOf(sent[i]) = IF head < i /\ i <= tail THEN 1 ELSE 0

\* C14: when T is zero-sized, destroying the channel still destructs every
\* element in head..tail exactly once and skips only the release of the
\* backing storage.
C14_ZstTeardown ==
    (chan = "destroyed" /\ zst) =>
        /\ Count("drop", "element") = tail - head
        /\ Count("dealloc", "storage") = 0

\* C15: for every order and interleaving of the two handle drops, the
\* teardown of the queue runs at most once, it has run exactly when both
\* handles have been dropped, and while a handle is alive nothing has been
\* destructed or released.
C15_SingleTeardown ==
    /\ Count("teardown", "queue") <= 1
    /\ Count("dealloc", "storage") <= Count("alloc", "storage")
    /\ Count("dealloc", "arc") <= Count("alloc", "arc")
    /\ Count("teardown", "queue") = 1
          <=> (sender = "dropped" /\ receiver = "dropped")
    /\ chan = "destroyed" <=> Count("teardown", "queue") = 1
    /\ (sender = "alive" \/ receiver = "alive") =>
          /\ chan = "live"
          /\ strong = (IF sender = "alive" THEN 1 ELSE 0)
                       + (IF receiver = "alive" THEN 1 ELSE 0)
          /\ Count("drop", "element") = 0
          /\ Count("dealloc", "storage") = 0
          /\ Count("dealloc", "arc") = 0

\* C15 witness: both handles were dropped after traffic between two threads,
\* with elements still enqueued in allocated storage.
C15_Witness ==
    /\ chan = "destroyed"
    /\ harness = "threaded"
    /\ ~ zst
    /\ head >= 1
    /\ tail - head >= 2

\* C16: when both threads are scheduled fairly, every send() call returns
\* (the consumer keeps receiving), every receive() call returns a value as
\* long as the producer has values left to send, and the run in which
\* MaxSends values are sent and received ends with all of them received, for
\* every N >= 1.
C16_BlockingProgress ==
    /\ (ppc # "idle" /\ p_op = "send") ~> (ppc = "idle" /\ p_result = Ok)
    /\ (cpc # "idle" /\ c_op = "receive" /\ Len(received) < MaxSends)
          ~> (cpc = "idle" /\ c_result.tag = "Some")
    /\ <>(Len(sent) = MaxSends /\ Len(received) = MaxSends)

\* C16 witness: with capacity 1, a send() has found the buffer full and is
\* about to try again while a receive() is in progress.
C16_Witness ==
    /\ N = 1
    /\ p_op = "send"
    /\ ppc = "push_load_tail"
    /\ p_tail = tail
    /\ tail = head + N
    /\ head >= 1
    /\ c_op = "receive"
    /\ cpc = "pop_read"

\* How far a push is from returning.
PushRank(pc) ==
    CASE pc = "push_load_tail" -> 4
      [] pc = "push_load_head" -> 3
      [] pc = "push_write" -> 2
      [] pc = "push_store_tail" -> 1
      [] OTHER -> 0

\* How far a pop is from returning.
PopRank(pc) ==
    CASE pc = "pop_load_head" -> 4
      [] pc = "pop_load_tail" -> 3
      [] pc = "pop_read" -> 2
      [] pc = "pop_store_head" -> 1
      [] OTHER -> 0

\* C17: every step of a try_send or a try_receive brings the call strictly
\* closer to its return (at most four steps, no loop), and the next step of
\* a call in progress can always be taken, wherever the other thread is
\* stopped.
C17_WaitFree ==
    /\ [][(ppc' # ppc /\ ppc # "idle" /\ p_op = "try_send")
          => PushRank(ppc') < PushRank(ppc)]_vars
    /\ [][(cpc' # cpc /\ cpc # "idle" /\ c_op = "try_receive")
          => PopRank(cpc') < PopRank(cpc)]_vars
    /\ [](ppc # "idle" => ENABLED ProducerStep)
    /\ [](cpc # "idle" => ENABLED ConsumerStep)

\* C17 witness: a try_send is at its reload of head on a full buffer while
\* the consumer is stopped between its slot read and its head store.
C17_Witness ==
    /\ harness = "threaded"
    /\ p_op = "try_send"
    /\ ppc = "push_load_head"
    /\ tail = head + N
    /\ cpc = "pop_store_head"

\* C18: while the buffer is full, no step of a send() returns, and each
\* leaves the value it was given and head, tail, the storage and both caches
\* unchanged; a full buffer stays full as long as the consumer takes no step;
\* while the buffer is empty, no step of a receive() returns, and an empty
\* buffer stays empty as long as the producer takes no step.
C18_SpinsWithoutLimit ==
    /\ [][(ppc' # ppc /\ ppc # "idle" /\ p_op = "send" /\ tail - head = N)
          => (/\ ppc' # "idle"
              /\ p_value' = p_value
              /\ UNCHANGED <<head, tail, buffer, head_cache, tail_cache, sent>>)]_vars
    /\ [][(tail - head = N /\ cpc' = cpc) => tail' - head' = N]_vars
    /\ [][(cpc' # cpc /\ cpc # "idle" /\ c_op = "receive" /\ head = tail)
          => (/\ cpc' # "idle"
              /\ UNCHANGED <<head, tail, buffer, head_cache, tail_cache, received>>)]_vars
    /\ [][(head = tail /\ ppc' = ppc) => head' = tail']_vars

\* C18 witness: one thread holds both handles and has called send() on a
\* full buffer; the call has gone round its loop and no receive can follow.
C18_Witness ==
    /\ harness = "single"
    /\ p_op = "send"
    /\ ppc = "push_load_tail"
    /\ p_tail = tail
    /\ tail = head + N
    /\ head >= 1
    /\ cpc = "idle"

\* C19: with N = 0 construction panics: the channel is never live, no Sender
\* and no Receiver is returned and nothing is allocated, for zero-sized
\* element types too; with N >= 1 construction does not panic.
C19_ZeroCapacityRejected ==
    /\ N = 0 =>
          /\ chan \in {"unbuilt", "panicked"}
          /\ sender = "none"
          /\ receiver = "none"
          /\ strong = 0
          /\ mem = <<>>
    /\ N >= 1 => chan # "panicked"

\* C19 witness: construction of a channel of a zero-sized type with N = 0
\* has panicked.
C19_Witness ==
    /\ N = 0
    /\ zst
    /\ chan = "panicked"

\* How many entries of `mem` record event ev, on anything.
CountAll(ev) == Cardinality({i \in 1..Len(mem) : mem[i].ev = ev})

\* What holds of send/receive for every element type: the capacity bound,
\* and as many values delivered and accepted as the counters say.
Delivery ==
    /\ tail - head <= N
    /\ Len(sent) = tail
    /\ Len(received) = head
    /\ \A i \in 1..Len(received) : received[i] = Offered(i)

\* C20 as stated: for a zero-sized T and N >= 1 construction performs no
\* heap allocation and teardown no deallocation, while send/receive obey the
\* capacity bound and deliver what was sent; for any other T exactly one
\* allocation is made at construction and exactly one at teardown is freed.
C20_NoHeapAllocation ==
    chan \in {"live", "destroyed"} =>
        /\ Delivery
        /\ zst => (CountAll("alloc") = 0 /\ CountAll("dealloc") = 0)
        /\ ~ zst =>
              /\ CountAll("alloc") = 1
              /\ CountAll("dealloc") = (IF chan = "destroyed" THEN 1 ELSE 0)

\* C20 amended: the statement of C20 counts allocations of the backing
\* storage: none is allocated or freed for a zero-sized T, exactly one is
\* allocated at construction and freed with the same layout at teardown for
\* any other T; for every T the Arc that holds the shared queue is one more
\* allocation at construction and one more deallocation at teardown.
C20_StorageAllocation ==
    chan \in {"live", "destroyed"} =>
        /\ Delivery
        /\ Count("alloc", "arc") = 1
        /\ Count("dealloc", "arc") = (IF chan = "destroyed" THEN 1 ELSE 0)
        /\ zst => (Count("alloc", "storage") = 0 /\ Count("dealloc", "storage") = 0)
        /\ ~ zst =>
              /\ Count("alloc", "storage") = 1
              /\ Count("dealloc", "storage") = (IF chan = "destroyed" THEN 1 ELSE 0)
              /\ \A i \in 1..Len(mem) :
                    mem[i].what = "storage" => mem[i].val = N

\* C20 witness: a channel of a zero-sized type has carried more than N values
\* and was destroyed with values still enqueued.
C20_Witness ==
    /\ zst
    /\ chan = "destroyed"
    /\ head >= N
    /\ tail > head

-----------------------------------------------------------------------------
(* Snapshot queries *)

\* What a query that returns now must return, given the occupancies `occs`
\* that the queue had at the instants of the call's two loads.
SnapshotOf(op, res, occs) ==
    \E n \in occs :
        /\ n \in 0..N
        /\ op = "len" => res = Length(n)
        /\ op = "is_empty" => res = Bool(n = 0)
        /\ op = "is_full" => res = Bool(n >= N)

\* C21: len() through the Sender (the consumer may pop meanwhile) or through
\* the Receiver (the producer may push meanwhile) returns a value in 0..=N that
\* was the occupancy tail - head at an instant of the call (one of its two
\* loads), its subtraction never goes below zero, and is_empty() and
\* is_full() answer len() == 0 and len() >= N of such a value.
C21_Snapshot ==
    /\ [][(ppc = "len_load_head" /\ ppc' = "idle")
          => /\ p_result' # Overflow
             /\ SnapshotOf(p_op, p_result', p_seen \cup {tail - head})]_vars
    /\ [][(cpc = "len_load_head" /\ cpc' = "idle")
          => /\ c_result' # Overflow
             /\ SnapshotOf(c_op, c_result', c_seen \cup {tail - head})]_vars

\* The Receiver's is_full() is between its two loads and the producer has
\* published an element since the first: the queue is full now, and the call
\* is about to answer for the occupancy N - 1 it had at the first load.
C21_Witness ==
    /\ cpc = "len_load_head"
    /\ c_op = "is_full"
    /\ N >= 2
    /\ c_len_tail - head = N - 1
    /\ tail - head = N
    /\ c_seen = {N - 1}
    /\ head > 0

-----------------------------------------------------------------------------
(* Counters *)

\* C22: head and tail never decrease; tail changes only in the store that
\* completes a successful push, and then by exactly 1, while a failed push
\* returns with tail as it found it; head changes only in the store that
\* completes a successful pop, by exactly 1, and a failed pop returns with
\* head as it found it; the element of logical position p is stored in, and
\* read from, physical slot p mod N.
C22_CountersStepByOne ==
    /\ [][head' >= head /\ tail' >= tail]_vars
    /\ [][tail' # tail
          => (ppc = "push_store_tail" /\ tail' = tail + 1 /\ tail = p_tail
              /\ (~ Blocking(p_op) => p_result' = Ok))]_vars
    /\ [][(ppc = "push_store_tail" /\ ppc' = "idle") => tail' = tail + 1]_vars
    /\ [][PushFails => (tail' = tail /\ tail = p_tail)]_vars
    /\ [][head' # head
          => (cpc = "pop_store_head" /\ head' = head + 1 /\ head = c_head
              /\ c_result'.tag = "Some")]_vars
    /\ [][(cpc = "pop_store_head" /\ cpc' = "idle") => head' = head + 1]_vars
    /\ [][PopFails => (head' = head /\ head = c_head)]_vars
    /\ [](chan = "live" => \A p \in head..(tail - 1) : buffer[p % N] = sent[p + 1])
    /\ [][buffer' # buffer
          => \/ chan' # chan
             \/ /\ ppc = "push_write"
                /\ \A i \in 0..(N - 1) : i # p_tail % N => buffer'[i] = buffer[i]
                /\ buffer'[p_tail % N] = p_value
             \/ cpc = "pop_read"]_vars
    /\ [][(cpc = "pop_read" /\ cpc' # cpc) => c_value' = buffer[c_head % N]]_vars

\* The counters are past the first lap of the storage, the queue is full, a
\* try_send has just been refused and the consumer's last try_receive took
\* an element.
C22_Witness ==
    /\ ~ zst
    /\ N >= 2
    /\ head >= 1
    /\ tail - head = N
    /\ tail > N
    /\ ppc = "idle"
    /\ p_result.tag = "Err"
    /\ cpc = "idle"
    /\ c_op = "try_receive"
    /\ c_result.tag = "Some"

-----------------------------------------------------------------------------
(* SparseMap *)

\* The key is in the map according to the calls made so far.
SmPresent(k) == sm_map[k] \in SmItems

\* items and keys are packed and pairwise aligned: one entry for each key in
\* the map, and keys[i] is the key of items[i].
SmPacked ==
    /\ Len(sm_keys) = Len(sm_items)
    /\ Len(sm_keys) = Cardinality({k \in SmKeys : SmPresent(k)})
    /\ \A i \in 1..Len(sm_keys) :
          /\ sm_keys[i] \in SmKeys
          /\ SmPresent(sm_keys[i])
          /\ sm_items[i] = sm_map[sm_keys[i]]

\* C23: remove of a key that is in the map (stored first, in the middle, last
\* or alone) returns Some(its item) without panicking, shrinks items and keys
\* by one, keeps them packed and aligned, and every other key in the map
\* still resolves through get to its own item.
C23_RemovePresent ==
    [][(sm_ret'.op = "remove" /\ SmPresent(sm_ret'.key))
       => /\ sm_ret'.tag = "Some"
          /\ sm_ret'.val = sm_map[sm_ret'.key]
          /\ Len(sm_items') = Len(sm_items) - 1
          /\ Len(sm_keys') = Len(sm_keys) - 1
          /\ SmPacked'
          /\ \A k \in SmKeys \ {sm_ret'.key} :
                SmPresent(k) => SmGet(k)' = Some(sm_map[k])]_vars

\* C24: insert(k, v) makes get(k) return v, for a key inside the indirection
\* table, for one at or beyond its end, and for key 0 after clear(), after
\* any calls of insert, remove and clear; it leaves len unchanged when k was
\* in the map and increases it by one when it was not; get and contains_key
\* of a key that was never inserted return None and false.
C24_MapSemantics ==
    /\ [][sm_ret'.op = "insert"
          => /\ sm_ret'.tag = "Unit"
             /\ Get(sm_indices', sm_items', sm_ret'.key) = Some(sm_ret'.arg)
             /\ SmPresent(sm_ret'.key) => SmLen' = SmLen
             /\ ~ SmPresent(sm_ret'.key) => SmLen' = SmLen + 1]_vars
    /\ [](\A k \in SmKeys :
            sm_map[k] = Absent => (SmGet(k) = None /\ ~ SmContainsKey(k)))

-----------------------------------------------------------------------------
(* Store *)

\* The keys that push returned and that remove has been called with since.
StStale == st_keys \ StLiveKeys

\* The generation stored for the index of `key`, in the next state.
NextGeneration(key) == st_generations'[key.index + 1]

\* C25: remove(key) increments the generation stored at key's index, and from
\* then on get(key), get_mut(key) and contains_key(key) report the key as
\* absent, also after later push calls have recycled the index; set(key, item)
\* and another remove(key) with such a stale key change nothing.
C25_StaleKeysRejected ==
    /\ [][(st_ret'.op = "remove" /\ st_ret'.key \in StLiveKeys)
          => /\ NextGeneration(st_ret'.key) = st_generations[st_ret'.key.index + 1] + 1
             /\ NextGeneration(st_ret'.key) # st_ret'.key.generation]_vars
    /\ [](\A k \in StStale : StGet(k) = None /\ ~ StContainsKey(k))
    /\ [][(st_ret'.op \in {"set", "remove"} /\ st_ret'.key \in StStale)
          => UNCHANGED <<st_items, st_generations, st_free_indices>>]_vars

\* C26: the key that push(item) returns resolves to the item (get returns
\* Some(item), contains_key holds) until remove is called with it, its
\* generation() is the generation stored for its index, and it differs from
\* every key returned before, whatever the number of remove / push cycles the
\* index has gone through.
C26_PushKeysValid ==
    /\ [](\A e \in st_live :
            /\ StGet(e.key) = Some(e.item)
            /\ StContainsKey(e.key)
            /\ e.key.generation = st_generations[e.key.index + 1])
    /\ [][st_ret'.op = "push" => st_ret'.key \notin st_keys]_vars

\* C27: remove of a live key appends its index to the free list and leaves
\* the items and the lengths of the vectors as they are; push takes the oldest
\* freed index if there is one, writes the item there and returns a key of
\* that index and of its incremented generation, and only otherwise appends a
\* slot of generation 0; no index is in the free list twice, and no live
\* item's index is in it.
C27_FifoRecycling ==
    /\ [][(st_ret'.op = "remove" /\ st_ret'.key \in StLiveKeys)
          => /\ st_free_indices' = Append(st_free_indices, st_ret'.key.index)
             /\ st_items' = st_items
             /\ Len(st_generations') = Len(st_generations)]_vars
    /\ [][st_ret'.op = "push"
          => IF st_free_indices # <<>>
             THEN /\ st_ret'.key.index = Head(st_free_indices)
                  /\ st_free_indices' = Tail(st_free_indices)
                  /\ st_items' = [st_items EXCEPT ![Head(st_free_indices) + 1] = st_ret'.arg]
                  /\ st_generations' = st_generations
                  /\ st_ret'.key.generation = st_generations[Head(st_free_indices) + 1]
                  /\ st_ret'.key.generation >= 1
             ELSE /\ st_items' = Append(st_items, st_ret'.arg)
                  /\ st_generations' = Append(st_generations, 0)
                  /\ st_ret'.key = [index |-> Len(st_items), generation |-> 0]
                  /\ st_free_indices' = <<>>]_vars
    /\ [](/\ \A i, j \in 1..Len(st_free_indices) :
                i # j => st_free_indices[i] # st_free_indices[j]
          /\ \A e \in st_live, i \in 1..Len(st_free_indices) :
                st_free_indices[i] # e.key.index)

-----------------------------------------------------------------------------
(* ArrayQueue *)

\* C28: as long as no push is made onto a full queue, for every capacity
\* N >= 1 and however often the physical index has wrapped, pop returns the
\* elements in push order and None exactly when the queue is empty, get(i)
\* returns the i-th oldest element for i < len() and None for i >= len(), and
\* len() is the number of pushes minus that of successful pops.
C28_FifoWithGet ==
    /\ [][aq_ret'.op = "pop"
          => IF aq_content = <<>>
             THEN aq_ret'.tag = "None"
             ELSE aq_ret'.tag = "Some" /\ aq_ret'.val = Head(aq_content)]_vars
    /\ [](AqAlive =>
            /\ AqLen = Len(aq_content)
            /\ \A i \in 0..aq_N :
                  AqGet(i) = {IF i < Len(aq_content) THEN Some(aq_content[i + 1]) ELSE None})

\* C29: as_slices returns two slices whose concatenation, first then second,
\* is the queue's content in FIFO order, and whose lengths add up to len();
\* second is non-empty only when the content wraps past the end of the
\* storage, and both are empty when the queue is empty.
C29_AsSlices ==
    AqAlive =>
        /\ AqAsSlices[1] \o AqAsSlices[2] = aq_content
        /\ Len(AqAsSlices[1]) + Len(AqAsSlices[2]) = AqLen
        /\ AqAsSlices[2] # <<>> => (aq_head % aq_N) + Len(aq_content) > aq_N
        /\ aq_content = <<>> => AqAsSlices = <<<<>>, <<>>>>

\* C30: len() never exceeds N; push on a queue that holds N elements panics
\* and leaves head, tail and every stored element as they are; clear() leaves
\* the queue empty (head == tail) and destructs each element that was stored,
\* once.
C30_Capacity ==
    /\ [](AqLen <= aq_N)
    /\ [][(aq_ret'.op = "push" /\ Len(aq_content) = aq_N)
          => /\ aq_ret'.tag = "Panic"
             /\ UNCHANGED <<aq_head, aq_tail, aq_data>>]_vars
    /\ [][aq_ret'.op = "clear"
          => /\ aq_head' = aq_tail'
             /\ aq_ret'.dropped = aq_content]_vars

-----------------------------------------------------------------------------
(* FixedVec *)

\* C31: swap_remove(index) with index < len returns the element stored at
\* index, puts the former last element at position index, leaves every other
\* element where it was and decreases len by one; with index >= len, on an
\* empty vector too, it returns None and changes neither len nor any slot.
C31_SwapRemove ==
    [][fv_ret'.op = "swap_remove" =>
        LET index == fv_ret'.arg IN
        IF index < fv_len
        THEN /\ fv_ret'.tag = "Some"
             /\ fv_ret'.val = fv_data[index]
             /\ fv_len' = fv_len - 1
             /\ \A i \in 0..(fv_len' - 1) :
                    fv_data'[i] = IF i = index THEN fv_data[fv_len - 1] ELSE fv_data[i]
        ELSE /\ fv_ret'.tag = "None"
             /\ UNCHANGED <<fv_data, fv_len>>]_vars

\* push(1), push(2), push(3), swap_remove(0) in a vector of three slots: 1 is
\* returned, 3 has taken its place, 2 stayed.
C31_Witness ==
    /\ fv_N = 3
    /\ fv_ret = FvReturned("swap_remove", 0, Some(1))
    /\ fv_len = 2
    /\ fv_data[0] = 3
    /\ fv_data[1] = 2

-----------------------------------------------------------------------------
(* ErasedVec *)

IsPowerOfTwo(n) == \E k \in 0..(USIZE_BITS - 1) : n = 2 ^ k

\* C32: len <= capacity after every operation.  A push that finds
\* len = capacity leaves a capacity that is the smallest power of two
\* >= len + 1 (16 when it was 8) and keeps every stored element; any other
\* push leaves capacity unchanged; both store the value at position len.  A
\* pop never changes capacity, returns None when len = 0, and otherwise
\* returns the element pushed last among those not yet popped.
C32_CapacityAndLifo ==
    /\ [](ev_len <= ev_capacity)
    /\ [][(ev_ret'.op = "push" /\ ev_ret'.tag = "Unit") =>
            /\ IF ev_len = ev_capacity
               THEN /\ IsPowerOfTwo(ev_capacity')
                    /\ ev_capacity' >= ev_len + 1
                    /\ ev_capacity' < 2 * (ev_len + 1)
                    /\ ev_capacity = DEFAULT_CAPACITY => ev_capacity' = 16
               ELSE ev_capacity' = ev_capacity
            /\ \A i \in 0..(ev_len - 1) : ev_data'[i] = ev_data[i]
            /\ ev_data'[ev_len] = ev_ret'.arg
            /\ ev_len' = ev_len + 1]_vars
    /\ [][ev_ret'.op = "pop" =>
            /\ ev_capacity' = ev_capacity
            /\ IF ev_len = 0
               THEN ev_ret'.tag = "None" /\ ev_len' = 0
               ELSE /\ ev_ret'.tag = "Some"
                    /\ ev_len' = ev_len - 1
                    /\ ev_plain => ev_ret'.val = ev_stack[Len(ev_stack)]]_vars

\* The 9th push of ErasedVec::new() has grown the capacity from 8 to 16 and
\* the eight elements stored before are in place.
C32_Witness ==
    /\ ev_ret.op = "push"
    /\ ev_ret.arg = EvValue(9)
    /\ ev_len = 9
    /\ ev_capacity = 16
    /\ \A i \in 0..8 : ev_data[i] = EvValue(i + 1)

-----------------------------------------------------------------------------
(* Layout *)

\* The addresses of the bytes of the fields with the given names.
BytesOf(names) ==
    UNION {{lay_base + lay_fields[i].offset + b : b \in 0..(lay_fields[i].size - 1)} :
               i \in {j \in DOMAIN lay_fields : lay_fields[j].name \in names}}

OffsetOf(name) ==
    LET i == CHOOSE j \in DOMAIN lay_fields : lay_fields[j].name = name IN lay_fields[i].offset

\* The cache lines that the given bytes lie in.
LinesOf(bytes) == {b \div CACHE_LINE : b \in bytes}

\* C33: once the structure is laid out, head, tail_cache and their padding
\* fill exactly the first 64 bytes of the structure and tail, head_cache and
\* their padding exactly the next 64; head is at offset 0 and tail at offset
\* 64; each group lies in one cache line and the two lines differ.
C33_CacheLines ==
    Len(lay_fields) = Len(Fields(lay_usize)) =>
        /\ OffsetOf("head") = 0
        /\ OffsetOf("tail") = 64
        /\ BytesOf({"head", "tail_cache", "_pad1"}) = lay_base..(lay_base + 63)
        /\ BytesOf({"tail", "head_cache", "_pad2"}) = (lay_base + 64)..(lay_base + 127)
        /\ Cardinality(LinesOf(BytesOf({"head", "tail_cache"}))) = 1
        /\ Cardinality(LinesOf(BytesOf({"tail", "head_cache"}))) = 1
        /\ LinesOf(BytesOf({"head", "tail_cache"}))
               \cap LinesOf(BytesOf({"tail", "head_cache"})) = {}

\* A 64-bit target with the structure at address 128: all seven fields are
\* laid out and tail is 64 bytes in.
C33_Witness ==
    /\ lay_usize = 8
    /\ lay_base = 128
    /\ Len(lay_fields) = 7
    /\ lay_fields[4] = [name |-> "tail", offset |-> 64, size |-> 8]

-----------------------------------------------------------------------------
(* Refinement *)

\* The abstract queue: the values at the logical positions head..tail,
\* oldest first.
Content == [i \in 1..(tail - head) |-> buffer[Slot(head + i - 1)]]

\* C34: the channel behaves as a FIFO queue of capacity N whose content is
\* the values at positions head..tail, which are the values sent and not yet
\* received.  A push takes effect at its store to tail: the queue is not
\* full, the value is appended and Ok is returned.  A pop takes effect at
\* its store to head: the queue is not empty, its first value is removed and
\* returned.  A push fails at its acquire load of head with the queue full
\* and hands the value back; a pop fails at its acquire load of tail with the
\* queue empty.  No other step changes the queue.
C34_Refinement ==
    /\ [](Content = SubSeq(sent, Len(received) + 1, Len(sent)))
    /\ [][/\ tail' # tail =>
                /\ Len(Content) < N
                /\ Content' = Append(Content, p_value)
                /\ p_result' = Ok
          /\ head' # head =>
                /\ Content # <<>>
                /\ Content' = Tail(Content)
                /\ c_result' = Some(Head(Content))
          /\ (p_result'.tag = "Err" /\ p_result.tag # "Err") =>
                /\ ppc = "push_load_head"
                /\ Len(Content) = N
                /\ p_result' = Err(p_value)
          /\ (c_result'.tag = "None" /\ c_result.tag # "None") =>
                /\ cpc = "pop_load_tail"
                /\ Content = <<>>
          /\ (tail' = tail /\ head' = head) => Content' = Content]_vars

\* Two threads on a channel of capacity 2: four values were accepted, two
\* were received, the producer was last told Ok and the consumer Some(2).
C34_Witness ==
    /\ harness = "threaded"
    /\ ~ zst
    /\ N = 2
    /\ Content = <<3, 4>>
    /\ received = <<1, 2>>
    /\ p_result = Ok
    /\ c_result = Some(2)

-----------------------------------------------------------------------------
(* Fast path and slow path *)

\* Every slot but the given one keeps its bits.
OnlySlot(s) == \A x \in DOMAIN buffer : x # s => buffer'[x] = buffer[x]

\* C35: a push goes on to its acquire load of head exactly when it finds
\* tail = head_cache + N at entry, and head_cache is written only by that
\* step, with the head it loaded; a pop goes on to its acquire load of tail
\* exactly when it finds head = tail_cache at entry, and tail_cache is
\* written only by that step, with the tail it loaded.  The entry step
\* writes nothing shared; the steps that follow on the fast path leave the
\* other side's counter and both caches alone and write only the own
\* counter and, for a push, the one slot of the position.
C35_SlowPathOnly ==
    [][/\ (ppc = "push_load_tail" /\ ppc' # ppc) =>
              /\ ppc' = IF tail = head_cache + N THEN "push_load_head" ELSE "push_write"
              /\ UNCHANGED <<head, tail, head_cache, tail_cache, buffer>>
       /\ (ppc' = "push_load_head" /\ ppc' # ppc) => ppc = "push_load_tail"
       /\ head_cache' # head_cache => (ppc = "push_load_head" /\ head_cache' = head)
       /\ (ppc \in {"push_write", "push_store_tail"} /\ ppc' # ppc) =>
              /\ UNCHANGED <<head, head_cache, tail_cache>>
              /\ tail' \in {tail, p_tail + 1}
              /\ OnlySlot(Slot(p_tail))
       /\ (cpc = "pop_load_head" /\ cpc' # cpc) =>
              /\ cpc' = IF head = tail_cache THEN "pop_load_tail" ELSE "pop_read"
              /\ UNCHANGED <<head, tail, head_cache, tail_cache, buffer>>
       /\ (cpc' = "pop_load_tail" /\ cpc' # cpc) => cpc = "pop_load_head"
       /\ tail_cache' # tail_cache => (cpc = "pop_load_tail" /\ tail_cache' = tail)
       /\ (cpc \in {"pop_read", "pop_store_head"} /\ cpc' # cpc) =>
              /\ UNCHANGED <<tail, head_cache, tail_cache, buffer>>
              /\ head' \in {head, c_head + 1}]_vars

\* Capacity 2, two threads: the third push found tail = head_cache + N
\* (2 = 0 + 2), loaded head = 1 and went on to write; the consumer is on
\* its fast path, about to read position 1 without a load of tail.
C35_Witness ==
    /\ harness = "threaded"
    /\ N = 2
    /\ ppc = "push_write"
    /\ p_tail = 2
    /\ head_cache = 1
    /\ cpc = "pop_read"
    /\ c_head = 1
    /\ tail_cache = 2

-----------------------------------------------------------------------------
(* Snapshots and the next operation *)

\* C36: a try_send that directly follows an is_full() through the Sender
\* that answered false does not return Err, and a try_receive that directly
\* follows an is_empty() through the Receiver that answered false does not
\* return None, whatever the other side does in between and meanwhile: from
\* the answer on, the buffer is not full (not empty) until the call's own
\* store, the call returns Ok (Some) and it does not panic.
C36_StableForOwnSide ==
    [][/\ (p_prev = Bool(FALSE) /\ ppc' = "idle" /\ ppc # "idle") => p_result' = Ok
       /\ (c_prev = Bool(FALSE) /\ cpc' = "idle" /\ cpc # "idle") => c_result'.tag = "Some"
       /\ p_prev = Bool(FALSE) => (tail - head < N /\ ppc' # "panicked")
       /\ c_prev = Bool(FALSE) => (tail - head > 0 /\ cpc' # "panicked")]_vars

\* The consumer was told "not empty" and is about to return the value it
\* read; the producer was told "full", the consumer has received since, and
\* the try_send that followed goes through.
C36_Witness ==
    /\ c_prev = Bool(FALSE)
    /\ cpc = "pop_store_head"
    /\ p_prev = Bool(TRUE)
    /\ ppc = "push_store_tail"
    /\ N = 2

\* C37: the counters never wrap.  None of the sums the code computes on
\* usize -- tail + 1, head + 1, head_cache + N -- exceeds usize::MAX, no call
\* panics, and past 2^USIZE_BITS pushes the values are still received in the
\* order they were accepted, and at most N elements are enqueued.
C37_NonWrapping ==
    /\ ppc = "push_load_tail" => head_cache + N <= UsizeRange - 1
    /\ ppc = "push_store_tail" => p_tail + 1 <= UsizeRange - 1
    /\ cpc = "pop_store_head" => c_head + 1 <= UsizeRange - 1
    /\ ppc # "panicked"
    /\ cpc # "panicked"
    /\ Len(received) <= Len(sent)
    /\ \A i \in 1..Len(received) : received[i] = sent[i]
    /\ head <= tail
    /\ tail - head <= N

\* C38: a handle that outlives its peer keeps working.  Once the Sender is
\* dropped, every call of the Receiver that returns hands out the oldest
\* value accepted and not yet received, and when there is none it is a
\* try_receive that returns None (receive() does not return).  Once the
\* Receiver is dropped, every call of the Sender that returns was accepted
\* if fewer than N elements were enqueued, and is a try_send that gets its
\* value back in Err if N were.  When the surviving handle is dropped too,
\* every element still enqueued has been destructed.
C38_OutlivesPeer ==
    /\ [](chan = "destroyed" => Count("drop", "element") = tail - head)
    /\ [][/\ (sender = "dropped" /\ cpc # "idle" /\ cpc' = "idle") =>
                IF Len(received) < Len(sent)
                THEN /\ c_result' = Some(sent[Len(received) + 1])
                     /\ received' = Append(received, sent[Len(received) + 1])
                ELSE /\ c_result' = None
                     /\ c_op = "try_receive"
          /\ (receiver = "dropped" /\ ppc # "idle" /\ ppc' = "idle") =>
                IF tail - head < N
                THEN /\ p_result' = Ok
                     /\ tail' = tail + 1
                ELSE /\ p_result' = Err(p_value)
                     /\ p_op = "try_send"
                     /\ tail' = tail]_vars

=============================================================================
